---- MODULE Spec2Model ----
(***************************************************************************)
(* A model of the issuance core of Boulder: the order-status function of   *)
(* the Storage Authority (sa/model.go), order finalization, the GCRA       *)
(* rate-limit engine (ratelimits) and the Policy Authority's blocklists    *)
(* (policy/pa.go).  Each part has its own specification over its own       *)
(* group of variables; the variables of the other groups stay idle.        *)
(***************************************************************************)
EXTENDS Integers, Sequences, FiniteSets, TLC

VARIABLES
    \* --- order group (sa/model.go) ---
    order,      \* the corepb.Order handed to statusForOrder
    authzs,     \* authzValidityInfo: the order's authorization (status, expires) rows
    now,        \* the clock
    result,     \* what the last statusForOrder call returned
    \* --- finalization group (FinalizeOrder calls on the order above) ---
    fpc,        \* each call's position
    fseen,      \* the status each call computed when it refreshed the order
    fres,       \* each call's outcome
    csr,        \* whether each call's CSR passes verification
    precerts,   \* the number of pre-certificates issued for the order
    transitions, \* the number of beganProcessing false -> true updates made
    \* --- rate-limit group ---
    limit,      \* the limit in force, with its precomputed fields
    tat,        \* the bucket store: each bucket's entry (a TAT, or no entry)
    clk,        \* the clock, in nanoseconds
    last,       \* the last limiter operation and its outcome
    law,        \* progress of the burst / wait / refill scenario
    cl,         \* the concurrent limiter clients: request, position, probes
    acct,       \* what the concurrent clients have been granted, per bucket
    \* --- policy group ---
    pa,         \* the AuthorityImpl: four blocklist tables, enabled types
    mu,         \* blocklistMu: the writer holding it, the readers holding it
    file,       \* the identifier policy file on disk
    idents,     \* the identifiers of the request under consideration
    lerr,       \* what the last LoadIdentPolicyFile returned
    werr,       \* what the last WillingToIssue returned
    ld,         \* the concurrent loader: position, tables built, loads done
    rd,         \* the concurrent readers: position, lookup, tables observed
    \* --- domain validation group (policy/pa.go) ---
    dname,      \* the domain name handed to ValidDomain
    verdict,    \* what ValidDomain returned for the name and for its lowercase form
    \* --- challenge group (policy/pa.go) ---
    authz,      \* the core.Authorization handed to CheckAuthzChallenges
    cres,       \* what the last ChallengeTypesFor / CheckAuthzChallenges returned
    \* --- authorization group (sa/model.go) ---
    am,         \* the authzModel row of one authorization
    apb,        \* the corepb.Authorization last built from the row
    aclk,       \* the clock
    ares,       \* the last operation on the row, its request and its outcome
    \* --- order storage group (sa/model.go) ---
    orders,             \* the orders: finalized or not, the serial each replaces
    orderFqdnSets,      \* the rows of table orderFqdnSets
    replacementOrders,  \* the rows of table replacementOrders
    sres,               \* the last storage operation and its outcome
    sclk,               \* the storage clock
    \* --- limit registry group (package ratelimits) ---
    reg,        \* the limitRegistry: defaults by name, overrides by bucket key
    rres,       \* what the last registry operation returned
    \* --- issued name group (sa/model.go) ---
    iname,      \* the name handed to EncodeIssuedName
    ienc        \* its encoding, and the encoding of the encoding

orderVars == <<order, authzs, now, result>>
finVars == <<fpc, fseen, fres, csr, precerts, transitions>>
rlVars == <<limit, tat, clk, last, law, cl, acct>>
paVars == <<pa, mu, file, idents, lerr, werr, ld, rd>>
vdVars == <<dname, verdict>>
chVars == <<authz, cres>>
azVars == <<am, apb, aclk, ares>>
stVars == <<orders, orderFqdnSets, replacementOrders, sres, sclk>>
rgVars == <<reg, rres>>
inVars == <<iname, ienc>>

vars == <<orderVars, finVars, rlVars, paVars, vdVars, chVars, azVars, stVars,
          rgVars, inVars>>

\* The variables each part leaves alone.
notOrderVars == <<finVars, rlVars, paVars, vdVars, chVars, azVars, stVars, rgVars, inVars>>
notFinVars == <<result, rlVars, paVars, vdVars, chVars, azVars, stVars, rgVars, inVars>>
notRLVars == <<orderVars, finVars, paVars, vdVars, chVars, azVars, stVars, rgVars, inVars>>
notPAVars == <<orderVars, finVars, rlVars, vdVars, chVars, azVars, stVars, rgVars, inVars>>
notVDVars == <<orderVars, finVars, rlVars, paVars, chVars, azVars, stVars, rgVars, inVars>>
notCHVars == <<orderVars, finVars, rlVars, vdVars, azVars, stVars, rgVars, inVars>>
notAZVars == <<orderVars, finVars, rlVars, paVars, vdVars, chVars, stVars, rgVars, inVars>>
notSTVars == <<orderVars, finVars, rlVars, paVars, vdVars, chVars, azVars, rgVars, inVars>>
notRGVars == <<orderVars, finVars, rlVars, paVars, vdVars, chVars, azVars, stVars, inVars>>
notINVars == <<orderVars, finVars, rlVars, paVars, vdVars, chVars, azVars, stVars, rgVars>>

(***************************************************************************)
(* Bounds                                                                  *)
(***************************************************************************)
MaxAuthz == 2   \* longest list of authorization rows, largest ID/identifier count
MaxTime == 1    \* times are 0 .. MaxTime
NumCalls == 2   \* concurrent FinalizeOrder calls on one order
MaxCount == 2   \* a limit's Count is at most this
MaxBurst == 2   \* a limit's Burst is at most this
MaxPeriod == 2  \* a limit's Period, in nanoseconds, is at most this
MaxCost == 2    \* a request's cost per bucket is at most this
MaxClock == 1   \* the clock stops advancing here
MaxEntries == 2 \* each list of a policy file has at most this many entries
MaxIdents == 1  \* a request names at most this many identifiers
MaxLoads == 2   \* policy reloads attempted while readers run
MaxNames == 3   \* identifiers in a request with several offending ones
MaxDomainLabels == 3 \* labels of a name handed to ValidDomain
MaxChallenges == 2  \* challenges listed in an authorization
MaxOrders == 3      \* orders created in the order storage
MaxOverrides == 2   \* elements of the overrides list of a registry
MaxCallIdents == 2  \* identifiers of a WillingToIssue call that runs beside reloads
MaxSurfaceChallenges == 2 \* challenges of a surface authorization put to authzPBToModel
MaxNameChars == 7   \* characters of a name handed to EncodeIssuedName

Times == 0 .. MaxTime

(***************************************************************************)
(* sa/model.go: authorization and order status                             *)
(***************************************************************************)

\* statusToUint / uintToStatus: the stored encodings of the ACME statuses.
StatusPending == 0
StatusValid == 1
StatusInvalid == 2
StatusDeactivated == 3
StatusRevoked == 4

\* A uint8 the uintToStatus map has no entry for (any value above 4).
StatusUnmapped == 5

StatusCodes == {StatusPending, StatusValid, StatusInvalid, StatusDeactivated,
                StatusRevoked, StatusUnmapped}

KnownStatusCodes == StatusCodes \ {StatusUnmapped}

\* type authzValidity (the Status and Expires columns statusForOrder reads).
AuthzValidity == [Status : StatusCodes, Expires : Times]

\* corepb.Order, as far as statusForOrder reads it.  V2Authorizations and
\* Identifiers are lists in the code; only their lengths are read, so the model
\* keeps the lengths.  CertificateSerial is "" until a certificate is recorded.
Orders == [Error : BOOLEAN, Expires : Times, V2Authorizations : 0 .. MaxAuthz,
           Identifiers : 0 .. MaxAuthz, CertificateSerial : {"", "serial"},
           BeganProcessing : BOOLEAN]

AuthzLists == UNION {[1 .. n -> AuthzValidity] : n \in 0 .. MaxAuthz}

\* time.Time.Before
Before(t, u) == t < u

\* What statusForOrder returns: a status and no error, or "" and an error.
Status(s) == [status |-> s, err |-> FALSE]
InternalServerError == [status |-> "", err |-> TRUE]

\* The counters of statusForOrder's loop over authzValidityInfo; bad is set when
\* the switch reaches its default case, where the function returns at once.
RECURSIVE countAuthzs(_, _, _)
countAuthzs(infos, i, acc) ==
    IF acc.bad \/ i > Len(infos) THEN acc
    ELSE LET info == infos[i]
             exp == IF Before(info.Expires, acc.now) THEN 1 ELSE 0
         IN  CASE info.Status = StatusPending ->
                    countAuthzs(infos, i + 1,
                        [acc EXCEPT !.pending = @ + 1, !.expired = @ + exp])
               [] info.Status = StatusValid ->
                    countAuthzs(infos, i + 1,
                        [acc EXCEPT !.valid = @ + 1, !.expired = @ + exp])
               [] info.Status \in {StatusInvalid, StatusDeactivated, StatusRevoked} ->
                    countAuthzs(infos, i + 1,
                        [acc EXCEPT !.other = @ + 1, !.expired = @ + exp])
               [] OTHER -> [acc EXCEPT !.bad = TRUE]

\* statusForOrder with the serial and beganProcessing tests in the wrong order.
statusForOrderProcessingFirst(o, infos, t) ==
    IF o.Error THEN Status("invalid")
    ELSE IF Before(o.Expires, t) THEN Status("invalid")
    ELSE IF Len(infos) # o.V2Authorizations THEN InternalServerError
    ELSE LET c == countAuthzs(infos, 1,
                     [pending |-> 0, valid |-> 0, other |-> 0, expired |-> 0,
                      bad |-> FALSE, now |-> t])
             fullyAuthorized == o.Identifiers = c.valid
         IN  IF c.bad THEN InternalServerError
             ELSE IF c.other > 0 \/ c.expired > 0 THEN Status("invalid")
             ELSE IF c.pending > 0 THEN Status("pending")
             ELSE IF ~fullyAuthorized THEN InternalServerError
             ELSE IF fullyAuthorized /\ o.BeganProcessing THEN Status("processing")
             ELSE IF fullyAuthorized /\ o.CertificateSerial # "" THEN Status("valid")
             ELSE Status("ready")

\* statusForOrder treating an order as expired at its expiry instant already.
statusForOrderExpiresInclusive(o, infos, t) ==
    IF o.Error THEN Status("invalid")
    ELSE IF o.Expires <= t THEN Status("invalid")
    ELSE IF Len(infos) # o.V2Authorizations THEN InternalServerError
    ELSE LET c == countAuthzs(infos, 1,
                     [pending |-> 0, valid |-> 0, other |-> 0, expired |-> 0,
                      bad |-> FALSE, now |-> t])
             fullyAuthorized == o.Identifiers = c.valid
         IN  IF c.bad THEN InternalServerError
             ELSE IF c.other > 0 \/ c.expired > 0 THEN Status("invalid")
             ELSE IF c.pending > 0 THEN Status("pending")
             ELSE IF ~fullyAuthorized THEN InternalServerError
             ELSE IF fullyAuthorized /\ o.CertificateSerial # "" THEN Status("valid")
             ELSE IF fullyAuthorized /\ o.BeganProcessing THEN Status("processing")
             ELSE Status("ready")

\* statusForOrder without the comparison of the number of rows with the number
\* of the order's authorization IDs.
statusForOrderNoLengthCheck(o, infos, t) ==
    IF o.Error THEN Status("invalid")
    ELSE IF Before(o.Expires, t) THEN Status("invalid")
    ELSE LET c == countAuthzs(infos, 1,
                     [pending |-> 0, valid |-> 0, other |-> 0, expired |-> 0,
                      bad |-> FALSE, now |-> t])
             fullyAuthorized == o.Identifiers = c.valid
         IN  IF c.bad THEN InternalServerError
             ELSE IF c.other > 0 \/ c.expired > 0 THEN Status("invalid")
             ELSE IF c.pending > 0 THEN Status("pending")
             ELSE IF ~fullyAuthorized THEN InternalServerError
             ELSE IF fullyAuthorized /\ o.CertificateSerial # "" THEN Status("valid")
             ELSE IF fullyAuthorized /\ o.BeganProcessing THEN Status("processing")
             ELSE Status("ready")

\* func statusForOrder(order, authzValidityInfo, now)
statusForOrder(o, infos, t) ==
    IF o.Error THEN Status("invalid")
    ELSE IF Before(o.Expires, t) THEN Status("invalid")
    ELSE IF Len(infos) # o.V2Authorizations THEN InternalServerError
    ELSE LET c == countAuthzs(infos, 1,
                     [pending |-> 0, valid |-> 0, other |-> 0, expired |-> 0,
                      bad |-> FALSE, now |-> t])
             fullyAuthorized == o.Identifiers = c.valid
         IN  IF c.bad THEN InternalServerError
             ELSE IF c.other > 0 \/ c.expired > 0 THEN Status("invalid")
             ELSE IF c.pending > 0 THEN Status("pending")
             ELSE IF ~fullyAuthorized THEN InternalServerError
             ELSE IF fullyAuthorized /\ o.CertificateSerial # "" THEN Status("valid")
             ELSE IF fullyAuthorized /\ o.BeganProcessing THEN Status("processing")
             ELSE IF fullyAuthorized /\ ~o.BeganProcessing THEN Status("ready")
             ELSE InternalServerError

\* No status has been computed for the order as it stands.
NoResult == [status |-> "none", err |-> FALSE]

(***************************************************************************)
(* SpecOrder: statusForOrder applied to every order, every list of rows    *)
(* and every time.                                                         *)
(***************************************************************************)
\* No order is under consideration.
IdleOrder == order = <<>> /\ authzs = <<>> /\ now = 0 /\ result = <<>>

\* No FinalizeOrder call is in flight.
IdleFin ==
    /\ fpc = <<>> /\ fseen = <<>> /\ fres = <<>> /\ csr = <<>>
    /\ precerts = 0 /\ transitions = 0

\* The rate limiter is not in use.
IdleRL ==
    /\ limit = <<>> /\ tat = <<>> /\ clk = 0 /\ last = <<>>
    /\ law = <<>> /\ cl = <<>> /\ acct = <<>>

\* The Policy Authority is not in use.
IdlePA ==
    /\ pa = <<>> /\ mu = <<>> /\ file = <<>> /\ idents = <<>>
    /\ lerr = <<>> /\ werr = <<>> /\ ld = <<>> /\ rd = <<>>

\* No domain name is being validated.
IdleVD == dname = <<>> /\ verdict = <<>>

\* No authorization is being checked against the challenge types.
IdleCH == authz = <<>> /\ cres = <<>>

\* No authorization row is under consideration.
IdleAZ == am = <<>> /\ apb = <<>> /\ aclk = 0 /\ ares = <<>>

\* The limit registry is not in use.
IdleRG == reg = <<>> /\ rres = <<>>

\* No name is being encoded.
IdleIN == iname = <<>> /\ ienc = <<>>

\* The order storage is not in use.
IdleST ==
    /\ orders = <<>> /\ orderFqdnSets = <<>> /\ replacementOrders = <<>>
    /\ sres = <<>> /\ sclk = 0

InitOrder ==
    /\ IdleFin /\ IdleRL /\ IdlePA
    /\ IdleVD /\ IdleCH /\ IdleAZ /\ IdleST /\ IdleRG /\ IdleIN
    /\ order \in Orders
    /\ authzs \in AuthzLists
    /\ now \in Times
    /\ result = NoResult

\* sa.GetOrder: the status of the order is computed by statusForOrder.
GetOrderStatus ==
    /\ result' = statusForOrder(order, authzs, now)
    /\ UNCHANGED <<order, authzs, now, notOrderVars>>

NextOrder == GetOrderStatus

SpecOrder == InitOrder /\ [][NextOrder]_vars

(***************************************************************************)
(* SpecOrderLife: an order as NewOrder stores it, followed through the     *)
(* updates of its row and of its authorizations' rows, and through time.   *)
(***************************************************************************)

\* The smallest expiry among the rows.
MinExpires(infos) ==
    CHOOSE t \in Times :
        /\ \E i \in 1 .. Len(infos) : infos[i].Expires = t
        /\ \A i \in 1 .. Len(infos) : infos[i].Expires >= t

\* NewOrder: one authorization per identifier, each new (pending) or a reused
\* valid one; the order expires no later than any of them; no error, no
\* serial, beganProcessing false.
InitOrderLife ==
    /\ IdleFin /\ IdleRL /\ IdlePA
    /\ IdleVD /\ IdleCH /\ IdleAZ /\ IdleST /\ IdleRG /\ IdleIN
    /\ now \in Times
    /\ \E n \in 1 .. MaxAuthz :
         /\ authzs \in [1 .. n -> [Status : {StatusPending, StatusValid}, Expires : Times]]
         /\ \E e \in Times :
              /\ e <= MinExpires(authzs)
              /\ order = [Error |-> FALSE, Expires |-> e, V2Authorizations |-> n,
                          Identifiers |-> n, CertificateSerial |-> "",
                          BeganProcessing |-> FALSE]
    /\ result = NoResult

\* An authorization of the order is validated: its row goes pending -> valid.
AuthzBecomesValid(i) ==
    /\ i \in 1 .. Len(authzs)
    /\ authzs[i].Status = StatusPending
    /\ authzs' = [authzs EXCEPT ![i].Status = StatusValid]
    /\ result' = NoResult
    /\ UNCHANGED <<order, now, notOrderVars>>

\* beganProcessing is set on the order row.
OrderBeginsProcessing ==
    /\ ~order.BeganProcessing
    /\ order' = [order EXCEPT !.BeganProcessing = TRUE]
    /\ result' = NoResult
    /\ UNCHANGED <<authzs, now, notOrderVars>>

\* The certificate serial is recorded on the order row.
OrderSerialSet ==
    /\ order.CertificateSerial = ""
    /\ order' = [order EXCEPT !.CertificateSerial = "serial"]
    /\ result' = NoResult
    /\ UNCHANGED <<authzs, now, notOrderVars>>

\* Time passes.
Tick ==
    /\ now < MaxTime
    /\ now' = now + 1
    /\ result' = NoResult
    /\ UNCHANGED <<order, authzs, notOrderVars>>

NextOrderLife ==
    \/ GetOrderStatus
    \/ \E i \in 1 .. MaxAuthz : AuthzBecomesValid(i)
    \/ OrderBeginsProcessing
    \/ OrderSerialSet
    \/ Tick

SpecOrderLife == InitOrderLife /\ [][NextOrderLife]_vars

(***************************************************************************)
(* SpecFinalize: concurrent FinalizeOrder calls on one ready order.        *)
(* FinalizeOrder (ra) and SetOrderProcessing (sa) are described by the     *)
(* design document, sections 4.6 and 4.8; the order's status is computed   *)
(* by statusForOrder.                                                      *)
(***************************************************************************)
Calls == 1 .. NumCalls

\* SetOrderProcessing without its condition: beganProcessing is set whatever
\* it was, and the call reports success.
SetOrderProcessingUnconditional(o) ==
    [order |-> [o EXCEPT !.BeganProcessing = TRUE], ok |-> TRUE]

\* sa.SetOrderProcessing: the update of beganProcessing to true, conditional on
\* beganProcessing = false; ok tells whether a row was updated.
SetOrderProcessing(o) ==
    IF ~o.BeganProcessing
    THEN [order |-> [o EXCEPT !.BeganProcessing = TRUE], ok |-> TRUE]
    ELSE [order |-> o, ok |-> FALSE]

\* A ready order, as NewOrder stored it and validation left it, and the calls
\* about to start, each with a CSR that passes verification or does not.
InitFinalize ==
    /\ IdleRL /\ IdlePA
    /\ IdleVD /\ IdleCH /\ IdleAZ /\ IdleST /\ IdleRG /\ IdleIN
    /\ now \in Times
    /\ \E n \in 1 .. MaxAuthz :
         /\ authzs \in [1 .. n -> [Status : {StatusValid}, Expires : Times]]
         /\ \E e \in Times :
              /\ e <= MinExpires(authzs)
              /\ order = [Error |-> FALSE, Expires |-> e, V2Authorizations |-> n,
                          Identifiers |-> n, CertificateSerial |-> "",
                          BeganProcessing |-> FALSE]
    /\ statusForOrder(order, authzs, now) = Status("ready")
    /\ result = NoResult
    /\ fpc = [c \in Calls |-> "start"]
    /\ fseen = [c \in Calls |-> "none"]
    /\ fres = [c \in Calls |-> "none"]
    /\ csr \in [Calls -> BOOLEAN]
    /\ precerts = 0
    /\ transitions = 0

\* FinalizeOrder step 1: refresh the order; reject unless its status is ready.
FinRefresh(c) ==
    /\ fpc[c] = "start"
    /\ LET st == statusForOrder(order, authzs, now)
       IN  /\ fseen' = [fseen EXCEPT ![c] = st.status]
           /\ IF st = Status("ready")
              THEN fpc' = [fpc EXCEPT ![c] = "verify"] /\ UNCHANGED fres
              ELSE /\ fpc' = [fpc EXCEPT ![c] = "done"]
                   /\ fres' = [fres EXCEPT ![c] = "OrderNotReady"]
    /\ UNCHANGED <<order, authzs, now, csr, precerts, transitions, notFinVars>>

\* FinalizeOrder step 2: verify the CSR; reject a bad one with BadCSR.
FinVerifyCSR(c) ==
    /\ fpc[c] = "verify"
    /\ IF csr[c]
       THEN fpc' = [fpc EXCEPT ![c] = "reserve"] /\ UNCHANGED fres
       ELSE /\ fpc' = [fpc EXCEPT ![c] = "done"]
            /\ fres' = [fres EXCEPT ![c] = "BadCSR"]
    /\ UNCHANGED <<order, authzs, now, fseen, csr, precerts, transitions, notFinVars>>

\* FinalizeOrder step 3: the conditional update; OrderNotReady if it updated
\* nothing.
FinSetOrderProcessing(c) ==
    /\ fpc[c] = "reserve"
    /\ LET r == SetOrderProcessing(order)
       IN  /\ order' = r.order
           /\ IF r.ok
              THEN /\ fpc' = [fpc EXCEPT ![c] = "issue"]
                   /\ transitions' = transitions + 1
                   /\ UNCHANGED fres
              ELSE /\ fpc' = [fpc EXCEPT ![c] = "done"]
                   /\ fres' = [fres EXCEPT ![c] = "OrderNotReady"]
                   /\ UNCHANGED transitions
    /\ UNCHANGED <<authzs, now, fseen, csr, precerts, notFinVars>>

\* FinalizeOrder step 4: the CA issues a pre-certificate for the order.
FinIssuePrecert(c) ==
    /\ fpc[c] = "issue"
    /\ precerts' = precerts + 1
    /\ fpc' = [fpc EXCEPT ![c] = "finalize"]
    /\ UNCHANGED <<order, authzs, now, fseen, fres, csr, transitions, notFinVars>>

\* FinalizeOrder steps 5 to 7: the final certificate is produced and its serial
\* recorded on the order.
FinRecordCertificate(c) ==
    /\ fpc[c] = "finalize"
    /\ order' = [order EXCEPT !.CertificateSerial = "serial"]
    /\ fpc' = [fpc EXCEPT ![c] = "done"]
    /\ fres' = [fres EXCEPT ![c] = "issued"]
    /\ UNCHANGED <<authzs, now, fseen, csr, precerts, transitions, notFinVars>>

NextFinalize ==
    \E c \in Calls :
        \/ FinRefresh(c)
        \/ FinVerifyCSR(c)
        \/ FinSetOrderProcessing(c)
        \/ FinIssuePrecert(c)
        \/ FinRecordCertificate(c)

SpecFinalize == InitFinalize /\ [][NextFinalize]_vars

\* Every call has returned.
AllReturned == \A c \in Calls : fpc[c] = "done"

\* The calls whose CSR passes verification.
GoodCalls == {c \in Calls : csr[c]}

C1_Safety ==
    /\ transitions <= 1
    /\ precerts <= 1
    /\ (transitions = 1) => order.BeganProcessing
    /\ (AllReturned /\ GoodCalls # {}) =>
          /\ transitions = 1 /\ precerts = 1
          /\ \E w \in GoodCalls :
                /\ fres[w] = "issued"
                /\ \A c \in GoodCalls \ {w} : fres[c] = "OrderNotReady"

\* C1: for any ready order and any interleaving of concurrent FinalizeOrder
\* calls, at most one call makes the beganProcessing false -> true update and
\* at most one pre-certificate is issued; once the calls have returned, exactly
\* one of those with a good CSR has issued and each of the others was rejected
\* with OrderNotReady; and beganProcessing, once true, stays true.
C1_SingleFinalization ==
    /\ []C1_Safety
    /\ [][order.BeganProcessing => order'.BeganProcessing]_vars

\* C1 witness: two calls with good CSRs both found the order ready; one made
\* the update and issued, the other was rejected with OrderNotReady.
C1_Witness ==
    /\ AllReturned
    /\ csr[1] /\ csr[2]
    /\ fseen[1] = "ready" /\ fseen[2] = "ready"
    /\ fres[1] = "OrderNotReady" /\ fres[2] = "issued"
    /\ precerts = 1

(***************************************************************************)
(* The rate-limit engine.  Limit, ValidateLimit and precompute are the     *)
(* source's (package ratelimits); the bucket decision, the refund and the  *)
(* batch check-and-spend follow the design document, section 4.3.          *)
(***************************************************************************)
Buckets == {"b1", "b2"}

Max(a, b) == IF a >= b THEN a ELSE b
Min(a, b) == IF a <= b THEN a ELSE b

\* Limit as the configuration gives it, before validation: Burst, Count and
\* Period (nanoseconds), with the precomputed fields still zero.
RawLimits ==
    [Burst : 0 .. MaxBurst, Count : 0 .. MaxCount, Period : 0 .. MaxPeriod,
     emissionInterval : {0}, burstOffset : {0}]

\* ValidateLimit: TRUE when it returns nil.
ValidateLimit(l) ==
    IF l.Burst <= 0 THEN FALSE
    ELSE IF l.Count <= 0 THEN FALSE
    ELSE IF l.Period <= 0 THEN FALSE
    ELSE TRUE

\* Limit.precompute: emissionInterval = Period.Nanoseconds() / Count (integer
\* division), burstOffset = emissionInterval * Burst.
precompute(l) ==
    [l EXCEPT !.emissionInterval = l.Period \div l.Count,
              !.burstOffset = (l.Period \div l.Count) * l.Burst]

\* The limits parseDefaultLimits / parseOverrideLimits accept and register.
Limits == {precompute(l) : l \in {r \in RawLimits : ValidateLimit(r)}}

\* A bucket's entry in the store: a TAT, or nothing.
NoEntry == [present |-> FALSE, tat |-> 0]
Entry(v) == [present |-> TRUE, tat |-> v]

\* The empty store.
EmptyStore == [b \in Buckets |-> NoEntry]

\* Step 1: read TAT (absent => TAT := now).
StoredTAT(store, b, t) == IF store[b].present THEN store[b].tat ELSE t

\* Steps 2 to 4 for a request of cost c at time t on a bucket whose TAT is
\* tatv: newTAT = max(now, TAT) + c * emissionInterval; allowAt = newTAT -
\* burstOffset; permit (and write newTAT) if allowAt <= now, else deny with
\* retryAfter = allowAt - now.
maybeSpend(l, tatv, t, c) ==
    LET newTAT == Max(t, tatv) + c * l.emissionInterval
        allowAt == newTAT - l.burstOffset
    IN  IF allowAt <= t
        THEN [allowed |-> TRUE, newTAT |-> newTAT, retryIn |-> 0]
        ELSE [allowed |-> FALSE, newTAT |-> tatv, retryIn |-> allowAt - t]

\* A refund with no lower limit on the TAT.
maybeRefundUnclamped(l, tatv, t, c) == tatv - c * l.emissionInterval

\* Refund of cost c: subtract c * emissionInterval from TAT, but never below
\* now - burstOffset.
maybeRefund(l, tatv, t, c) ==
    Max(tatv - c * l.emissionInterval, t - l.burstOffset)

\* The requests: a cost for each bucket of a non-empty set of buckets.
Requests == UNION {[S -> 1 .. MaxCost] : S \in (SUBSET Buckets) \ {{}}}

\* Each bucket's decision for the request, probed against the store.
Probe(l, store, t, costs) ==
    [b \in DOMAIN costs |-> maybeSpend(l, StoredTAT(store, b, t), t, costs[b])]

\* A check-and-spend that spends in every bucket that permits, whatever the
\* other buckets decide.
BatchCheckAndSpendEager(l, store, t, costs) ==
    LET d == Probe(l, store, t, costs)
    IN  [allowed |-> \A b \in DOMAIN costs : d[b].allowed,
         store |-> [b \in Buckets |->
                      IF b \in DOMAIN costs /\ d[b].allowed
                      THEN Entry(d[b].newTAT) ELSE store[b]]]

\* Check-and-spend over several buckets: probe every bucket; if any denies,
\* spend nothing; otherwise spend all.
BatchCheckAndSpend(l, store, t, costs) ==
    LET d == Probe(l, store, t, costs)
        ok == \A b \in DOMAIN costs : d[b].allowed
    IN  [allowed |-> ok,
         store |-> [b \in Buckets |->
                      IF ok /\ b \in DOMAIN costs
                      THEN Entry(d[b].newTAT) ELSE store[b]]]

(***************************************************************************)
(* SpecGCRALaw: a fresh bucket of each accepted limit receives cost-1      *)
(* requests at one instant, then, after k emission intervals, again.       *)
(***************************************************************************)
LawBucket == "b1"

InitGCRALaw ==
    /\ IdleOrder /\ IdleFin /\ IdlePA
    /\ IdleVD /\ IdleCH /\ IdleAZ /\ IdleST /\ IdleRG /\ IdleIN
    /\ limit \in Limits
    /\ tat = EmptyStore
    /\ clk \in 0 .. MaxClock
    /\ last = <<>> /\ cl = <<>> /\ acct = <<>>
    /\ law = [phase |-> "burst", made |-> 0, granted |-> 0, k |-> 0,
              deniedAt |-> 0, retryIn |-> 0]

\* One more cost-1 request on the bucket, at the current instant.
LawRequest ==
    /\ law.made <= limit.Burst
    /\ LET d == maybeSpend(limit, StoredTAT(tat, LawBucket, clk), clk, 1)
           first == ~d.allowed /\ law.deniedAt = 0
       IN  /\ tat' = IF d.allowed
                     THEN [tat EXCEPT ![LawBucket] = Entry(d.newTAT)]
                     ELSE tat
           /\ law' = [law EXCEPT
                        !.made = @ + 1,
                        !.granted = IF d.allowed THEN @ + 1 ELSE @,
                        !.deniedAt = IF first THEN law.made + 1 ELSE @,
                        !.retryIn = IF first THEN d.retryIn ELSE @]
    /\ UNCHANGED <<limit, clk, last, cl, acct, notRLVars>>

\* Once the burst has been requested, k emission intervals pass (k <= burst).
LawWait(k) ==
    /\ law.phase = "burst"
    /\ law.made >= limit.Burst
    /\ clk' = clk + k * limit.emissionInterval
    /\ law' = [phase |-> "after", made |-> 0, granted |-> 0, k |-> k,
               deniedAt |-> 0, retryIn |-> 0]
    /\ UNCHANGED <<limit, tat, last, cl, acct, notRLVars>>

NextGCRALaw ==
    \/ LawRequest
    \/ \E k \in 1 .. limit.Burst : LawWait(k)

SpecGCRALaw == InitGCRALaw /\ [][NextGCRALaw]_vars

\* C5: of the cost-1 requests made on a fresh bucket at one instant exactly
\* the first burst are permitted and the (burst+1)-th is denied with
\* 0 < retryAfter <= emissionInterval; after k emission intervals (k <= burst)
\* exactly k more are permitted.
C5_GCRALaw ==
    /\ law.phase = "burst" =>
         /\ law.granted = Min(law.made, limit.Burst)
         /\ law.made > limit.Burst =>
              /\ law.deniedAt = limit.Burst + 1
              /\ 0 < law.retryIn /\ law.retryIn <= limit.emissionInterval
    /\ law.phase = "after" => law.granted = Min(law.made, law.k)

(***************************************************************************)
(* SpecGCRA: check-and-spend requests over sets of buckets, refunds,       *)
(* the passage of time and the expiry of entries, one operation at a time. *)
(***************************************************************************)
NoOp == [op |-> "none", costs |-> <<>>, allowed |-> FALSE, prior |-> <<>>,
         repeated |-> FALSE]

InitGCRA ==
    /\ IdleOrder /\ IdleFin /\ IdlePA
    /\ IdleVD /\ IdleCH /\ IdleAZ /\ IdleST /\ IdleRG /\ IdleIN
    /\ limit \in Limits
    /\ tat = EmptyStore
    /\ clk = 0
    /\ last = NoOp
    /\ law = <<>> /\ cl = <<>> /\ acct = <<>>

\* Spend(keys, costs) / BatchCheckAndSpend: the request is decided and, if
\* permitted, spent.  last keeps the request, the decision, each bucket's TAT
\* as read before the operation, and whether the operation repeats the one
\* before it: for a spend, the same request was just denied; for a refund, the
\* same request was just permitted and spent.
Spend(costs) ==
    /\ LET r == BatchCheckAndSpend(limit, tat, clk, costs)
       IN  /\ tat' = r.store
           /\ last' = [op |-> "spend", costs |-> costs, allowed |-> r.allowed,
                       prior |-> [b \in DOMAIN costs |-> StoredTAT(tat, b, clk)],
                       repeated |-> IF last.op = "spend" /\ ~last.allowed
                                    THEN last.costs = costs ELSE FALSE]
    /\ UNCHANGED <<limit, clk, law, cl, acct, notRLVars>>

\* Refund(key, cost).
Refund(b, c) ==
    /\ tat' = [tat EXCEPT ![b] =
                 Entry(maybeRefund(limit, StoredTAT(tat, b, clk), clk, c))]
    /\ last' = [op |-> "refund", costs |-> [x \in {b} |-> c], allowed |-> TRUE,
                prior |-> [x \in {b} |-> StoredTAT(tat, b, clk)],
                repeated |-> IF last.op = "spend" /\ last.allowed
                             THEN last.costs = [x \in {b} |-> c] ELSE FALSE]
    /\ UNCHANGED <<limit, clk, law, cl, acct, notRLVars>>

\* A nanosecond passes.
ClockTick ==
    /\ clk < MaxClock
    /\ clk' = clk + 1
    /\ last' = NoOp
    /\ UNCHANGED <<limit, tat, law, cl, acct, notRLVars>>

\* The store drops an entry whose TAT has been reached (entries are written
\* with an expiry of newTAT - now).
Expire(b) ==
    /\ tat[b].present
    /\ tat[b].tat <= clk
    /\ tat' = [tat EXCEPT ![b] = NoEntry]
    /\ last' = NoOp
    /\ UNCHANGED <<limit, clk, law, cl, acct, notRLVars>>

NextGCRA ==
    \/ \E costs \in Requests : Spend(costs)
    \/ \E b \in Buckets, c \in 1 .. MaxCost : Refund(b, c)
    \/ ClockTick
    \/ \E b \in Buckets : Expire(b)

SpecGCRA == InitGCRA /\ [][NextGCRA]_vars

\* Each bucket of the request just made would, on its own, have permitted.
AllPermit(costs) ==
    \A b \in DOMAIN costs :
        maybeSpend(limit, StoredTAT(tat, b, clk), clk, costs[b]).allowed

\* C6: a check-and-spend over a set of buckets is permitted exactly when every
\* bucket permits, and then every bucket of the request holds its new TAT and
\* no other bucket changes; when a bucket denies, the request is denied and
\* the store is unchanged, so the same request made again is denied again and
\* changes nothing.
C6_AllOrNothing ==
    [][(last'.op = "spend") =>
         LET costs == last'.costs
         IN  /\ last'.allowed <=> AllPermit(costs)
             /\ last'.allowed =>
                  /\ \A b \in DOMAIN costs :
                        tat'[b] = Entry(Max(clk, StoredTAT(tat, b, clk))
                                        + costs[b] * limit.emissionInterval)
                  /\ \A b \in Buckets \ DOMAIN costs : tat'[b] = tat[b]
             /\ ~last'.allowed =>
                  /\ tat' = tat
                  /\ BatchCheckAndSpend(limit, tat', clk', costs)
                       = [allowed |-> FALSE, store |-> tat]]_vars

\* C6 witness: a request over two buckets, one of which would permit on its
\* own, has just been denied for the second time in a row.
C6_Witness ==
    /\ last.op = "spend" /\ ~last.allowed /\ last.repeated
    /\ DOMAIN last.costs = Buckets
    /\ \E b \in Buckets :
          maybeSpend(limit, StoredTAT(tat, b, clk), clk, last.costs[b]).allowed

\* The bucket and the cost of a single-bucket operation.
KeyOf(costs) == CHOOSE b \in DOMAIN costs : TRUE

\* The step is Refund(k, c) and the operation before it was Spend(k, c).
RefundAfterSpend ==
    /\ last.op = "spend" /\ last'.op = "refund"
    /\ last'.costs = last.costs

\* C8 as stated: Spend(k, c) immediately followed by Refund(k, c) leaves the
\* bucket's TAT within one emission interval of its value before the spend
\* (an absent TAT read as now), and no refund lowers the TAT below
\* now - burstOffset.
C8_RefundLaw ==
    [][/\ RefundAfterSpend =>
            LET b == KeyOf(last.costs)
                d == tat'[b].tat - last.prior[b]
            IN  /\ d <= limit.emissionInterval
                /\ 0 - d <= limit.emissionInterval
       /\ (last'.op = "refund") =>
            tat'[KeyOf(last'.costs)].tat >= clk - limit.burstOffset]_vars

\* C8, amended: when the Spend was permitted, the Refund returns the bucket's
\* effective TAT, max(now, TAT), to its value before the spend; and a refund of
\* any size, in any bucket state, leaves a TAT that is not below
\* now - burstOffset and a bucket that permits nothing a fresh bucket would
\* deny.
C8_RefundRestores ==
    [][(last'.op = "refund") =>
         LET b == KeyOf(last'.costs)
         IN  /\ tat'[b].present
             /\ tat'[b].tat >= clk - limit.burstOffset
             /\ \A n \in 1 .. MaxBurst + 1 :
                   maybeSpend(limit, tat'[b].tat, clk, n).allowed
                      => maybeSpend(limit, clk, clk, n).allowed
             /\ (RefundAfterSpend /\ last.allowed) =>
                   Max(clk, tat'[b].tat) = Max(clk, last.prior[b])]_vars

\* C8 witness: a spend of cost 2 was permitted on a bucket with a positive
\* emission interval and has just been refunded.
C8_Witness ==
    /\ last.op = "refund" /\ last.repeated
    /\ limit.emissionInterval > 0
    /\ \E b \in Buckets : DOMAIN last.costs = {b} /\ last.costs[b] = 2

(***************************************************************************)
(* SpecLimiter: concurrent cost-1 check-and-spend requests at one instant. *)
(* A request on one bucket reads the entry and writes it back with a       *)
(* compare-and-set, starting over when the entry has changed; a request    *)
(* over several buckets probes each bucket, and if all permit, spends in   *)
(* each (design document, sections 4.3 and 5).                             *)
(***************************************************************************)
Clients == {"c1", "c2", "c3"}

\* A compare-and-set that does not compare.
casBlind(stored, seen) == TRUE

\* The compare of the compare-and-set on a cache entry.
cas(stored, seen) == stored = seen

InitLimiter ==
    /\ IdleOrder /\ IdleFin /\ IdlePA
    /\ IdleVD /\ IdleCH /\ IdleAZ /\ IdleST /\ IdleRG /\ IdleIN
    /\ limit \in Limits
    /\ tat = EmptyStore
    /\ clk \in 0 .. MaxClock
    /\ last = <<>> /\ law = <<>>
    /\ \E keys \in [Clients -> (SUBSET Buckets) \ {{}}] :
          cl = [c \in Clients |->
                  [keys |-> keys[c], pc |-> "probe", seen |-> {},
                   snap |-> EmptyStore, todo |-> {}, res |-> "none"]]
    /\ acct = [single |-> [b \in Buckets |-> 0], multi |-> [b \in Buckets |-> 0]]

\* Client c reads bucket b; with every bucket read it decides: deny and
\* return, or go on to spend.
ProbeBucket(c, b) ==
    /\ cl[c].pc = "probe"
    /\ b \in cl[c].keys \ cl[c].seen
    /\ LET snap == [cl[c].snap EXCEPT ![b] = tat[b]]
           seen == cl[c].seen \cup {b}
           ok == \A x \in cl[c].keys :
                    maybeSpend(limit, StoredTAT(snap, x, clk), clk, 1).allowed
       IN  cl' = [cl EXCEPT ![c] =
                    IF seen # cl[c].keys
                    THEN [@ EXCEPT !.snap = snap, !.seen = seen]
                    ELSE IF ok
                    THEN [@ EXCEPT !.snap = snap, !.seen = seen,
                                   !.pc = "spend", !.todo = cl[c].keys]
                    ELSE [@ EXCEPT !.snap = snap, !.seen = seen,
                                   !.pc = "done", !.res = "deny"]]
    /\ UNCHANGED <<limit, tat, clk, last, law, acct, notRLVars>>

\* A single-bucket request writes its new TAT if the entry is still the one
\* it read, and starts over otherwise.
SpendCAS(c, b) ==
    /\ cl[c].pc = "spend"
    /\ cl[c].keys = {b}
    /\ IF cas(tat[b], cl[c].snap[b])
       THEN /\ tat' = [tat EXCEPT ![b] =
                         Entry(maybeSpend(limit, StoredTAT(tat, b, clk), clk, 1).newTAT)]
            /\ cl' = [cl EXCEPT ![c].pc = "done", ![c].res = "permit",
                                ![c].todo = {}]
            /\ acct' = [acct EXCEPT !.single[b] = @ + 1]
       ELSE /\ cl' = [cl EXCEPT ![c].pc = "probe", ![c].seen = {},
                                ![c].snap = EmptyStore, ![c].todo = {}]
            /\ UNCHANGED <<tat, acct>>
    /\ UNCHANGED <<limit, clk, last, law, notRLVars>>

\* A request over several buckets spends in one of its buckets: the bucket's
\* TAT advances by the cost from max(now, TAT), with no second check.
SpendBucket(c, b) ==
    /\ cl[c].pc = "spend"
    /\ cl[c].keys # {b}
    /\ b \in cl[c].todo
    /\ tat' = [tat EXCEPT ![b] =
                 Entry(Max(clk, StoredTAT(tat, b, clk)) + limit.emissionInterval)]
    /\ cl' = [cl EXCEPT ![c].todo = @ \ {b},
                        ![c].pc = IF cl[c].todo = {b} THEN "done" ELSE @,
                        ![c].res = IF cl[c].todo = {b} THEN "permit" ELSE @]
    /\ acct' = [acct EXCEPT !.multi[b] = @ + 1]
    /\ UNCHANGED <<limit, clk, last, law, notRLVars>>

NextLimiter ==
    \E c \in Clients, b \in Buckets :
        \/ ProbeBucket(c, b)
        \/ SpendCAS(c, b)
        \/ SpendBucket(c, b)

SpecLimiter == InitLimiter /\ [][NextLimiter]_vars

\* n cost-1 requests made one after the other on a fresh bucket at this
\* instant would all be permitted.
Fits(n) == n <= 0 \/ maybeSpend(limit, clk, clk, n).allowed

\* The single-bucket requests on bucket b.
SingleOn(b) == {c \in Clients : cl[c].keys = {b}}

\* The requests over several buckets that have spent, or have decided to
\* spend, in bucket b.
MultiOn(b) ==
    {c \in Clients : b \in cl[c].keys /\ cl[c].keys # {b}
                     /\ cl[c].pc \in {"spend", "done"} /\ cl[c].res # "deny"}

\* The permitted requests on each bucket are ones a sequence of requests would
\* permit: single-bucket requests never obtain more than the bucket's capacity,
\* a single-bucket request is denied only by a full bucket, and the stored TAT
\* accounts for every unit spent.
Linearizable ==
    \A b \in Buckets :
        /\ Fits(acct.single[b])
        /\ (\A c \in Clients : b \in cl[c].keys => cl[c].keys = {b})
              => Fits(acct.single[b] + acct.multi[b])
        /\ \A c \in SingleOn(b) :
              cl[c].res = "deny" => ~Fits(acct.single[b] + acct.multi[b] + 1)
        /\ StoredTAT(tat, b, clk)
              = clk + (acct.single[b] + acct.multi[b]) * limit.emissionInterval

\* C7 as stated: single-bucket requests are linearizable, and no bucket is
\* overspent by more than burst.
C7_OverspendBoundedByBurst ==
    /\ Linearizable
    /\ \A b \in Buckets : Fits(acct.single[b] + acct.multi[b] - limit.Burst)

\* C7, amended: single-bucket requests are linearizable, and a bucket is
\* overspent by at most the number of concurrent requests over several
\* buckets that were permitted on it.
C7_OverspendBoundedByRequests ==
    /\ Linearizable
    /\ \A b \in Buckets :
          Fits(acct.single[b] + acct.multi[b] - Cardinality(MultiOn(b)))

\* C7 witness: every client has returned; two single-bucket requests raced on
\* a bucket of capacity 1 and one was denied, while on the other bucket a
\* request over both buckets took the only unit.
C7_Witness ==
    /\ \A c \in Clients : cl[c].pc = "done"
    /\ limit.Burst = 1 /\ limit.emissionInterval > 0
    /\ cl["c1"].keys = {"b1"} /\ cl["c2"].keys = {"b1"} /\ cl["c3"].keys = Buckets
    /\ cl["c1"].res = "permit" /\ cl["c2"].res = "deny" /\ cl["c3"].res = "permit"
    /\ acct.single["b1"] = 1 /\ acct.multi["b1"] = 1

(***************************************************************************)
(* The Policy Authority (package policy).  A domain name is the sequence   *)
(* of its labels ("a.b.c" is <<"a", "b", "c">>), an IP address or prefix   *)
(* the sequence of its leading octets.                                     *)
(***************************************************************************)
maxLabels == 10

\* Labels made of lowercase letters and digits, and labels that also have
\* uppercase letters ("*" is in neither).
LowerLabels == {"a", "b", "c", "cd", "d", "z", "10", "11"}
UpperLabels == {"A"}
Octets == {"10", "11"}

\* The public suffixes iana.ExtractSuffix knows.
PublicSuffixes == {"c", "cd"}

DNS(v) == [Type |-> "dns", Value |-> v]
IP(v) == [Type |-> "ip", Value |-> v]

\* Errors: a BoulderError kind and its detail; nil; an error of fmt.Errorf.
NoError == [kind |-> "nil", detail |-> ""]
MalformedError(d) == [kind |-> "Malformed", detail |-> d]
RejectedIdentifierError(d) == [kind |-> "RejectedIdentifier", detail |-> d]
Errorf(d) == [kind |-> "error", detail |-> d]
errPolicyForbidden == RejectedIdentifierError("forbidden by policy")
errNotLoaded == Errorf("identifier policy not yet loaded")

\* strings.Count(domain, "*")
CountWildcards(d) == Cardinality({i \in 1 .. Len(d) : d[i] = "*"})

\* strings.HasPrefix(domain, "*.") and strings.TrimPrefix(domain, "*.")
HasWildcardPrefix(d) == Len(d) >= 2 /\ d[1] = "*"
TrimWildcardPrefix(d) == IF HasWildcardPrefix(d) THEN Tail(d) ELSE d

\* netip.ParseAddr succeeds: two octets.
ParseAddrOK(d) == Len(d) = 2 /\ \A i \in 1 .. Len(d) : d[i] \in Octets

\* netip.ParsePrefix succeeds: one or two leading octets.
ParsePrefixOK(p) == Len(p) \in 1 .. 2 /\ \A i \in 1 .. Len(p) : p[i] \in Octets

\* netip.Prefix.Contains
Contains(prefix, ip) ==
    Len(prefix) <= Len(ip) /\ SubSeq(ip, 1, Len(prefix)) = prefix

\* iana.ExtractSuffix: the public suffix the name ends with, or an error.
ExtractSuffix(d) ==
    IF Len(d) >= 1 /\ d[Len(d)] \in PublicSuffixes
    THEN [err |-> FALSE, suffix |-> <<d[Len(d)]>>]
    ELSE [err |-> TRUE, suffix |-> <<>>]

\* validNonWildcardDomain with a label check that lets uppercase letters pass.
validNonWildcardDomainAnyCase(d) ==
    IF d = <<>> THEN MalformedError("errEmptyIdentifier")
    ELSE IF HasWildcardPrefix(d) THEN MalformedError("errWildcardNotSupported")
    ELSE IF \E i \in 1 .. Len(d) : d[i] \notin LowerLabels \cup UpperLabels
         THEN MalformedError("errInvalidDNSCharacter")
    ELSE IF ParseAddrOK(d) THEN MalformedError("errIPAddressInDNS")
    ELSE IF Len(d) > maxLabels THEN MalformedError("errTooManyLabels")
    ELSE IF Len(d) < 2 THEN MalformedError("errTooFewLabels")
    ELSE IF ExtractSuffix(d).err THEN MalformedError("errNonPublic")
    ELSE IF ExtractSuffix(d).suffix = d THEN MalformedError("errICANNTLD")
    ELSE NoError

validNonWildcardDomain(d) ==
    IF d = <<>> THEN MalformedError("errEmptyIdentifier")
    ELSE IF HasWildcardPrefix(d) THEN MalformedError("errWildcardNotSupported")
    ELSE IF \E i \in 1 .. Len(d) : d[i] \notin LowerLabels \cup UpperLabels
         THEN MalformedError("errInvalidDNSCharacter")
    ELSE IF ParseAddrOK(d) THEN MalformedError("errIPAddressInDNS")
    ELSE IF Len(d) > maxLabels THEN MalformedError("errTooManyLabels")
    ELSE IF Len(d) < 2 THEN MalformedError("errTooFewLabels")
    ELSE IF \E i \in 1 .. Len(d) : d[i] \notin LowerLabels
         THEN MalformedError("errInvalidDNSCharacter")
    ELSE IF ExtractSuffix(d).err THEN MalformedError("errNonPublic")
    ELSE IF ExtractSuffix(d).suffix = d THEN MalformedError("errICANNTLD")
    ELSE NoError

ValidDomain(d) ==
    IF CountWildcards(d) <= 0 THEN validNonWildcardDomain(d)
    ELSE IF CountWildcards(d) > 1 THEN MalformedError("errTooManyWildcards")
    ELSE IF ~HasWildcardPrefix(d) THEN MalformedError("errMalformedWildcard")
    ELSE LET baseDomain == TrimWildcardPrefix(d)
         IN  IF ExtractSuffix(baseDomain).err THEN MalformedError("errNonPublic")
             ELSE IF baseDomain = ExtractSuffix(baseDomain).suffix
                  THEN MalformedError("errICANNTLDWildcard")
             ELSE validNonWildcardDomain(baseDomain)

\* ValidIP, with no address in a special-purpose registry.
ValidIP(v) ==
    IF v = <<>> THEN MalformedError("errEmptyIdentifier")
    ELSE IF ~ParseAddrOK(v) THEN MalformedError("errIPInvalid")
    ELSE NoError

\* subError: a BoulderError keeps its kind, any other error becomes a
\* RejectedIdentifier with the error's text.
subError(ident, err) ==
    [Identifier |-> ident,
     kind |-> IF err.kind = "error" THEN "RejectedIdentifier" ELSE err.kind,
     detail |-> err.detail]

\* The sub-errors of the identifiers for which E gives an error, in order.
collectSubErrors(ids, E(_)) ==
    LET F[i \in 0 .. Len(ids)] ==
            IF i = 0 THEN <<>>
            ELSE IF E(ids[i]) = NoError THEN F[i - 1]
            ELSE Append(F[i - 1], subError(ids[i], E(ids[i])))
    IN  F[Len(ids)]

\* combineSubErrors that never attaches the sub-errors.
combineSubErrorsFirstOnly(subErrors) ==
    IF Len(subErrors) = 0
    THEN [kind |-> "nil", first |-> <<>>, detail |-> "", subErrors |-> <<>>]
    ELSE [kind |-> "RejectedIdentifier",
          first |-> <<subErrors[1].Identifier>>,
          detail |-> subErrors[1].detail,
          subErrors |-> <<>>]

\* combineSubErrors: nil for no sub-error; for one, a RejectedIdentifier naming
\* it; for more, a RejectedIdentifier naming the first and carrying them all.
combineSubErrors(subErrors) ==
    IF Len(subErrors) = 0
    THEN [kind |-> "nil", first |-> <<>>, detail |-> "", subErrors |-> <<>>]
    ELSE [kind |-> "RejectedIdentifier",
          first |-> <<subErrors[1].Identifier>>,
          detail |-> subErrors[1].detail,
          subErrors |-> IF Len(subErrors) = 1 THEN <<>> ELSE subErrors]

\* The per-identifier check of WellFormedIdentifiers.
wellFormedIdentifier(ident) ==
    IF ident.Type = "dns" THEN ValidDomain(ident.Value)
    ELSE IF ident.Type = "ip" THEN ValidIP(ident.Value)
    ELSE MalformedError("errUnsupportedIdent")

WellFormedIdentifiers(ids) ==
    combineSubErrors(collectSubErrors(ids, wellFormedIdentifier))

\* A blocklist table: a nil map or slice, or one holding entries.
NilTable == [isNil |-> TRUE, elems |-> {}]
Table(S) == [isNil |-> FALSE, elems |-> S]

\* The challenge types of core, as the configuration enables them.
ChallengeTypes == {"http-01", "dns-01", "tls-alpn-01"}

\* New: no table yet, the enabled identifier and challenge types as configured.
New(identifierTypes, challengeTypes) ==
    [domainBlocklist |-> NilTable, fqdnBlocklist |-> NilTable,
     wildcardFqdnBlocklist |-> NilTable, ipPrefixBlocklist |-> NilTable,
     enabledChallenges |-> challengeTypes,
     enabledIdentifiers |-> identifierTypes]

\* The tables as processIdentPolicy builds them, without the entries that
\* block wildcards over the exact names.
buildTablesNoWildcard(policy) ==
    [domainBlocklist |->
        Table(policy.HighRiskBlockedNames \cup policy.AdminBlockedNames),
     fqdnBlocklist |-> Table(policy.ExactBlockedNames),
     wildcardFqdnBlocklist |-> Table({}),
     ipPrefixBlocklist |->
        IF policy.AdminBlockedPrefixes = {} THEN NilTable
        ELSE Table(policy.AdminBlockedPrefixes)]

\* The tables processIdentPolicy builds: nameMap, exactNameMap,
\* wildcardNameMap (each exact name minus its leftmost label) and prefixes.
buildTables(policy) ==
    [domainBlocklist |->
        Table(policy.HighRiskBlockedNames \cup policy.AdminBlockedNames),
     fqdnBlocklist |-> Table(policy.ExactBlockedNames),
     wildcardFqdnBlocklist |->
        Table({Tail(v) : v \in policy.ExactBlockedNames}),
     ipPrefixBlocklist |->
        IF policy.AdminBlockedPrefixes = {} THEN NilTable
        ELSE Table(policy.AdminBlockedPrefixes)]

\* processIdentPolicy up to the point where it takes the lock: the error it
\* returns, or nil and the tables it is about to install.
processIdentPolicy(policy) ==
    IF \E v \in policy.ExactBlockedNames : Len(v) < 2
    THEN [err |-> Errorf("malformed ExactBlockedNames entry, only one label"),
          tables |-> buildTables(policy)]
    ELSE IF \E p \in policy.AdminBlockedPrefixes : ~ParsePrefixOK(p)
    THEN [err |-> Errorf("malformed AdminBlockedPrefixes entry, not a prefix"),
          tables |-> buildTables(policy)]
    ELSE [err |-> NoError, tables |-> buildTables(policy)]

\* LoadIdentPolicyFile without the checks for empty lists.
readPolicyFileNoEmptyCheck(f) ==
    IF ~f.readable THEN Errorf("read or unmarshal error")
    ELSE NoError

\* LoadIdentPolicyFile up to the call of processIdentPolicy.
readPolicyFile(f) ==
    IF ~f.readable THEN Errorf("read or unmarshal error")
    ELSE IF f.policy.HighRiskBlockedNames = {}
         THEN Errorf("no entries in HighRiskBlockedNames")
    ELSE IF f.policy.ExactBlockedNames = {}
         THEN Errorf("no entries in ExactBlockedNames")
    ELSE NoError

\* The four assignments made under the lock.
install(p, tables) ==
    [p EXCEPT !.domainBlocklist = tables.domainBlocklist,
              !.fqdnBlocklist = tables.fqdnBlocklist,
              !.wildcardFqdnBlocklist = tables.wildcardFqdnBlocklist,
              !.ipPrefixBlocklist = tables.ipPrefixBlocklist]

checkWildcardBlocklist(p, domain) ==
    IF p.wildcardFqdnBlocklist.isNil THEN errNotLoaded
    ELSE IF domain \in p.wildcardFqdnBlocklist.elems THEN errPolicyForbidden
    ELSE NoError

\* checkBlocklists looking up the whole name only, not its label suffixes.
checkBlocklistsWholeName(p, ident) ==
    IF p.domainBlocklist.isNil THEN errNotLoaded
    ELSE IF ident.Type = "dns"
    THEN IF ident.Value \in p.domainBlocklist.elems
         THEN errPolicyForbidden
         ELSE IF ident.Value \in p.fqdnBlocklist.elems
         THEN errPolicyForbidden
         ELSE NoError
    ELSE IF ident.Type = "ip"
    THEN IF ~ParseAddrOK(ident.Value) THEN MalformedError("errIPInvalid")
         ELSE IF \E prefix \in p.ipPrefixBlocklist.elems :
                    Contains(prefix, ident.Value)
         THEN errPolicyForbidden
         ELSE NoError
    ELSE MalformedError("errUnsupportedIdent")

\* checkBlocklists reading a table that was never loaded as an empty one.
checkBlocklistsNilAsEmpty(p, ident) ==
    IF ident.Type = "dns"
    THEN LET labels == ident.Value
         IN  IF \E i \in 1 .. Len(labels) :
                   SubSeq(labels, i, Len(labels)) \in p.domainBlocklist.elems
             THEN errPolicyForbidden
             ELSE IF ident.Value \in p.fqdnBlocklist.elems
             THEN errPolicyForbidden
             ELSE NoError
    ELSE IF ident.Type = "ip"
    THEN IF ~ParseAddrOK(ident.Value) THEN MalformedError("errIPInvalid")
         ELSE IF \E prefix \in p.ipPrefixBlocklist.elems :
                    Contains(prefix, ident.Value)
         THEN errPolicyForbidden
         ELSE NoError
    ELSE MalformedError("errUnsupportedIdent")

checkBlocklists(p, ident) ==
    IF p.domainBlocklist.isNil THEN errNotLoaded
    ELSE IF ident.Type = "dns"
    THEN LET labels == ident.Value
         IN  IF \E i \in 1 .. Len(labels) :
                   SubSeq(labels, i, Len(labels)) \in p.domainBlocklist.elems
             THEN errPolicyForbidden
             ELSE IF ident.Value \in p.fqdnBlocklist.elems
             THEN errPolicyForbidden
             ELSE NoError
    ELSE IF ident.Type = "ip"
    THEN IF ~ParseAddrOK(ident.Value) THEN MalformedError("errIPInvalid")
         ELSE IF \E prefix \in p.ipPrefixBlocklist.elems :
                    Contains(prefix, ident.Value)
         THEN errPolicyForbidden
         ELSE NoError
    ELSE MalformedError("errUnsupportedIdent")

\* The body of WillingToIssue's loop for one identifier.
willingToIssueIdentifier(p, ident) ==
    IF ident.Type \notin p.enabledIdentifiers
    THEN RejectedIdentifierError("disabled identifier type")
    ELSE IF ident.Type = "dns" /\ CountWildcards(ident.Value) > 0
              /\ checkWildcardBlocklist(p, TrimWildcardPrefix(ident.Value)) # NoError
    THEN checkWildcardBlocklist(p, TrimWildcardPrefix(ident.Value))
    ELSE checkBlocklists(p, ident)

WillingToIssue(p, ids) ==
    IF WellFormedIdentifiers(ids).kind # "nil" THEN WellFormedIdentifiers(ids)
    ELSE LET E(ident) == willingToIssueIdentifier(p, ident)
         IN  combineSubErrors(collectSubErrors(ids, E))

(***************************************************************************)
(* SpecPolicy: a Policy Authority, a policy file and a request; the file   *)
(* is loaded and the request is put to WillingToIssue, in any order and    *)
(* any number of times.                                                    *)
(***************************************************************************)
ExactPool == {<<"a", "b", "c">>, <<"d", "b", "c">>, <<"c">>}
HighRiskPool == {<<"b", "c">>, <<"d", "c">>, <<"c">>}
AdminPool == {<<"b", "c">>, <<"z", "a", "b", "c">>}
PrefixPool == {<<"10">>, <<"bad">>}

\* The lists a policy file can hold: at most MaxEntries entries of the pool.
Lists(pool) == {S \in SUBSET pool : Cardinality(S) <= MaxEntries}

\* blockedIdentsPolicy
Policies ==
    [ExactBlockedNames : Lists(ExactPool),
     HighRiskBlockedNames : Lists(HighRiskPool),
     AdminBlockedNames : Lists(AdminPool),
     AdminBlockedPrefixes : Lists(PrefixPool)]

\* The policy files: one that cannot be read or parsed, and one for each
\* policy.
Files ==
    {[readable |-> FALSE,
      policy |-> [ExactBlockedNames |-> {}, HighRiskBlockedNames |-> {},
                  AdminBlockedNames |-> {}, AdminBlockedPrefixes |-> {}]]}
    \cup {[readable |-> TRUE, policy |-> p] : p \in Policies}

IdentPool ==
    {DNS(<<"a", "b", "c">>), DNS(<<"*", "b", "c">>), DNS(<<"b", "c">>),
     DNS(<<"z", "a", "b", "c">>), DNS(<<"d", "b", "c">>),
     DNS(<<"*", "a", "b", "c">>), DNS(<<"c">>), DNS(<<"*", "c">>),
     DNS(<<"a", "b">>), DNS(<<"10", "11">>), DNS(<<"b", "cd">>),
     IP(<<"10", "11">>), IP(<<"11", "10">>),
     [Type |-> "email", Value |-> <<"a", "b", "c">>]}

IdentLists == UNION {[1 .. n -> IdentPool] : n \in 0 .. MaxIdents}

\* The identifier types a deployment enables.
EnabledSets == {{"dns", "ip"}, {"dns"}}

NotCalled == [kind |-> "not called", detail |-> ""]
FreeMutex == [writer |-> FALSE, readers |-> {}]

InitPolicy ==
    /\ IdleOrder /\ IdleFin /\ IdleRL
    /\ IdleVD /\ IdleCH /\ IdleAZ /\ IdleST /\ IdleRG /\ IdleIN
    /\ \E e \in EnabledSets : pa = New(e, ChallengeTypes)
    /\ mu = FreeMutex
    /\ file \in Files
    /\ idents \in IdentLists
    /\ lerr = NotCalled
    /\ werr = NotCalled
    /\ ld = <<>> /\ rd = <<>>

\* LoadIdentPolicyFile: an error from reading, from the empty-list checks or
\* from processIdentPolicy leaves the tables alone; otherwise the four tables
\* are replaced under the lock.  No request has been answered since.
LoadIdentPolicyFile ==
    /\ LET r == readPolicyFile(file)
           q == processIdentPolicy(file.policy)
       IN  IF r # NoError THEN lerr' = r /\ UNCHANGED pa
           ELSE IF q.err # NoError THEN lerr' = q.err /\ UNCHANGED pa
           ELSE lerr' = NoError /\ pa' = install(pa, q.tables)
    /\ werr' = NotCalled
    /\ UNCHANGED <<mu, file, idents, ld, rd, notPAVars>>

\* WillingToIssue(idents)
WillingToIssueCall ==
    /\ werr' = WillingToIssue(pa, idents)
    /\ UNCHANGED <<pa, mu, file, idents, lerr, ld, rd, notPAVars>>

NextPolicy ==
    \/ LoadIdentPolicyFile
    \/ WillingToIssueCall

SpecPolicy == InitPolicy /\ [][NextPolicy]_vars

\* The identifiers WillingToIssue has just rejected as forbidden by policy.
Forbidden ==
    IF werr.kind \in {"nil", "not called"} THEN {}
    ELSE IF werr.subErrors = <<>>
    THEN {werr.first[1]} \cap
            (IF werr.detail = errPolicyForbidden.detail THEN IdentPool ELSE {})
    ELSE {werr.subErrors[i].Identifier : i \in
            {j \in 1 .. Len(werr.subErrors) :
                werr.subErrors[j].detail = errPolicyForbidden.detail}}

\* The request has been put to WillingToIssue after the file was loaded, and
\* every identifier of it is well formed and of an enabled type.
AnsweredAfterLoad ==
    /\ lerr = NoError
    /\ werr.kind # "not called"
    /\ WellFormedIdentifiers(idents).kind = "nil"
    /\ \A i \in 1 .. Len(idents) : idents[i].Type \in pa.enabledIdentifiers

\* An entry of the policy other than the exact name a.b.c covers name n: n is
\* itself an exact blocked name, or a high-risk or admin blocked name is a
\* label-wise suffix of n.
CoveredOtherwise(n) ==
    \/ n \in file.policy.ExactBlockedNames
    \/ \E i \in 1 .. Len(n) :
          SubSeq(n, i, Len(n)) \in
             file.policy.HighRiskBlockedNames \cup file.policy.AdminBlockedNames

\* C10: after loading a policy whose ExactBlockedNames contains a.b.c,
\* WillingToIssue rejects a.b.c and the wildcard *.b.c as forbidden by policy;
\* and it rejects b.c, z.a.b.c or d.b.c as forbidden only if another entry of
\* the policy covers that name.
C10_ExactBlocked ==
    (AnsweredAfterLoad /\ <<"a", "b", "c">> \in file.policy.ExactBlockedNames) =>
       \A i \in 1 .. Len(idents) :
          /\ idents[i] \in {DNS(<<"a", "b", "c">>), DNS(<<"*", "b", "c">>)}
                => (werr.kind = "RejectedIdentifier" /\ idents[i] \in Forbidden)
          /\ idents[i] \in {DNS(<<"b", "c">>), DNS(<<"z", "a", "b", "c">>),
                            DNS(<<"d", "b", "c">>)}
                => (idents[i] \in Forbidden <=> CoveredOtherwise(idents[i].Value))

\* C10 witness: the policy blocks exactly a.b.c and the unrelated d.c, and the
\* wildcard *.b.c has been rejected.
C10_Witness ==
    /\ AnsweredAfterLoad
    /\ file.policy.ExactBlockedNames = {<<"a", "b", "c">>}
    /\ file.policy.HighRiskBlockedNames = {<<"d", "c">>}
    /\ file.policy.AdminBlockedNames = {}
    /\ idents = <<DNS(<<"*", "b", "c">>)>>
    /\ werr.kind = "RejectedIdentifier"
    /\ werr.detail = errPolicyForbidden.detail

\* Name s is a label-wise suffix of name n.
HasLabelSuffix(n, s) ==
    \E i \in 1 .. Len(n) : SubSeq(n, i, Len(n)) = s

\* C11: after loading a policy whose HighRiskBlockedNames or AdminBlockedNames
\* contains b.c, WillingToIssue rejects as forbidden by policy b.c itself, every
\* name with the label-wise suffix b.c (a.b.c) and every wildcard over such a
\* name (*.a.b.c); b.cd, which has no label-wise suffix b.c, is rejected as
\* forbidden only if some other entry of the policy covers it.
C11_SuffixBlocked ==
    (/\ AnsweredAfterLoad
     /\ <<"b", "c">> \in
           file.policy.HighRiskBlockedNames \cup file.policy.AdminBlockedNames) =>
       \A i \in 1 .. Len(idents) :
          /\ (idents[i].Type = "dns" /\ HasLabelSuffix(idents[i].Value, <<"b", "c">>))
                => (werr.kind = "RejectedIdentifier" /\ idents[i] \in Forbidden)
          /\ idents[i] = DNS(<<"b", "cd">>)
                => (idents[i] \in Forbidden <=> CoveredOtherwise(<<"b", "cd">>))

\* C11 witness: only the high-risk entry b.c covers it, and the wildcard
\* *.a.b.c has been rejected as forbidden.
C11_Witness ==
    /\ AnsweredAfterLoad
    /\ file.policy.HighRiskBlockedNames = {<<"b", "c">>}
    /\ file.policy.ExactBlockedNames = {<<"d", "b", "c">>}
    /\ file.policy.AdminBlockedNames = {}
    /\ idents = <<DNS(<<"*", "a", "b", "c">>)>>
    /\ werr.kind = "RejectedIdentifier"
    /\ werr.detail = errPolicyForbidden.detail

\* C11 witness for the unaffected name: with b.c blocked, b.cd was accepted.
C11_WitnessUnaffected ==
    /\ AnsweredAfterLoad
    /\ <<"b", "c">> \in file.policy.HighRiskBlockedNames
    /\ idents = <<DNS(<<"b", "cd">>)>>
    /\ werr.kind = "nil"

\* No load of the file has succeeded: the file never changes, so every load
\* so far has ended as the last one did.
NeverLoaded == lerr # NoError

\* The request is not empty, and every identifier of it is well formed and of
\* an enabled type.
IssuableRequest ==
    /\ idents # <<>>
    /\ WellFormedIdentifiers(idents).kind = "nil"
    /\ \A i \in 1 .. Len(idents) : idents[i].Type \in pa.enabledIdentifiers

\* C30: until a policy has been loaded successfully, WillingToIssue returns an
\* error for every non-empty list of well-formed identifiers of enabled types,
\* whether no load was attempted or every load failed; the four tables are
\* still unloaded then.
C30_NoIssuanceBeforeLoad ==
    NeverLoaded =>
       /\ pa.domainBlocklist.isNil /\ pa.fqdnBlocklist.isNil
       /\ pa.wildcardFqdnBlocklist.isNil /\ pa.ipPrefixBlocklist.isNil
       /\ (werr # NotCalled /\ IssuableRequest) => werr.kind # "nil"

\* C30 witness: a load has failed, and the request for 10.11 was refused.
C30_Witness ==
    /\ lerr \notin {NoError, NotCalled}
    /\ idents = <<IP(<<"10", "11">>)>>
    /\ IssuableRequest
    /\ werr \notin {NoError, NotCalled}

\* C30 witness before any load: the request a.b.c was refused.
C30_WitnessNoLoad ==
    /\ lerr = NotCalled
    /\ idents = <<DNS(<<"a", "b", "c">>)>>
    /\ werr \notin {NoError, NotCalled}

(***************************************************************************)
(* SpecPA: policy reloads running concurrently with blocklist lookups.     *)
(* The loader's four assignments and a lookup's reads are separate steps;  *)
(* blocklistMu orders them.                                                *)
(***************************************************************************)
Readers == {"r1", "r2"}

\* The files a reload finds: two policies that differ in all four tables,
\* and files that do not load: a malformed prefix, a one-label exact name, an
\* empty high-risk list, an empty exact list.
ReloadFiles ==
    {[readable |-> TRUE,
      policy |-> [ExactBlockedNames |-> {<<"a", "b", "c">>},
                  HighRiskBlockedNames |-> {<<"d", "c">>},
                  AdminBlockedNames |-> {},
                  AdminBlockedPrefixes |-> {<<"10">>}]],
     [readable |-> TRUE,
      policy |-> [ExactBlockedNames |-> {<<"a", "d", "c">>},
                  HighRiskBlockedNames |-> {<<"b", "c">>},
                  AdminBlockedNames |-> {<<"z", "a", "b", "c">>},
                  AdminBlockedPrefixes |-> {}]],
     [readable |-> TRUE,
      policy |-> [ExactBlockedNames |-> {<<"a", "b", "c">>},
                  HighRiskBlockedNames |-> {<<"d", "c">>},
                  AdminBlockedNames |-> {},
                  AdminBlockedPrefixes |-> {<<"bad">>}]],
     [readable |-> TRUE,
      policy |-> [ExactBlockedNames |-> {<<"a", "b", "c">>, <<"c">>},
                  HighRiskBlockedNames |-> {<<"d", "c">>},
                  AdminBlockedNames |-> {},
                  AdminBlockedPrefixes |-> {}]],
     [readable |-> TRUE,
      policy |-> [ExactBlockedNames |-> {<<"a", "b", "c">>},
                  HighRiskBlockedNames |-> {},
                  AdminBlockedNames |-> {<<"b", "c">>},
                  AdminBlockedPrefixes |-> {}]],
     [readable |-> TRUE,
      policy |-> [ExactBlockedNames |-> {},
                  HighRiskBlockedNames |-> {<<"b", "c">>},
                  AdminBlockedNames |-> {},
                  AdminBlockedPrefixes |-> {<<"10">>}]]}

\* The lookups readers make.
Lookups ==
    {[fn |-> "checkWildcardBlocklist", ident |-> DNS(<<"b", "c">>)],
     [fn |-> "checkBlocklists", ident |-> DNS(<<"a", "b", "c">>)],
     [fn |-> "checkBlocklists", ident |-> IP(<<"10", "11">>)]}

TableNames ==
    {"domainBlocklist", "fqdnBlocklist", "wildcardFqdnBlocklist",
     "ipPrefixBlocklist"}

\* An RLock that does not wait for the writer.
canRLockAlways(m) == TRUE

\* sync.RWMutex: RLock proceeds when no writer holds the mutex, Lock when
\* nobody holds it.
canRLock(m) == ~m.writer
canLock(m) == ~m.writer /\ m.readers = {}

IdleReader ==
    [pc |-> "idle", lookup |-> [fn |-> "none", ident |-> DNS(<<>>)],
     seen |-> New({}, {}), read |-> {}, verdict |-> NotCalled]

InitPA ==
    /\ IdleOrder /\ IdleFin /\ IdleRL
    /\ IdleVD /\ IdleCH /\ IdleAZ /\ IdleST /\ IdleRG /\ IdleIN
    /\ pa = New({"dns", "ip"}, ChallengeTypes)
    /\ mu = FreeMutex
    /\ file \in ReloadFiles
    /\ idents = <<>> /\ werr = NotCalled
    /\ lerr = NotCalled
    /\ ld = [pc |-> "idle", tables |-> New({}, {}), loads |-> 0]
    /\ rd = [r \in Readers |-> IdleReader]

\* The policy file is replaced on disk.
ReplaceFile(f) ==
    /\ ld.pc = "idle"
    /\ f # file
    /\ file' = f
    /\ UNCHANGED <<pa, mu, idents, lerr, werr, ld, rd, notPAVars>>

\* LoadIdentPolicyFile up to blocklistMu.Lock(): the file is read and the
\* tables are built; an error ends the call.
LoadStart ==
    /\ ld.pc = "idle"
    /\ ld.loads < MaxLoads
    /\ LET r == readPolicyFile(file)
           q == processIdentPolicy(file.policy)
       IN  IF r # NoError
           THEN lerr' = r /\ ld' = [ld EXCEPT !.loads = @ + 1]
           ELSE IF q.err # NoError
           THEN lerr' = q.err /\ ld' = [ld EXCEPT !.loads = @ + 1]
           ELSE /\ ld' = [pc |-> "lock", tables |-> q.tables,
                          loads |-> ld.loads + 1]
                /\ UNCHANGED lerr
    /\ UNCHANGED <<pa, mu, file, idents, werr, rd, notPAVars>>

\* pa.blocklistMu.Lock()
LoadLock ==
    /\ ld.pc = "lock"
    /\ canLock(mu)
    /\ mu' = [mu EXCEPT !.writer = TRUE]
    /\ ld' = [ld EXCEPT !.pc = "domainBlocklist"]
    /\ UNCHANGED <<pa, file, idents, lerr, werr, rd, notPAVars>>

\* One of the four assignments, in the order of the code.
LoadAssign(t, next) ==
    /\ ld.pc = t
    /\ pa' = [pa EXCEPT ![t] = ld.tables[t]]
    /\ ld' = [ld EXCEPT !.pc = next]
    /\ UNCHANGED <<mu, file, idents, lerr, werr, rd, notPAVars>>

\* pa.blocklistMu.Unlock(); return nil
LoadUnlock ==
    /\ ld.pc = "unlock"
    /\ mu' = [mu EXCEPT !.writer = FALSE]
    /\ ld' = [ld EXCEPT !.pc = "idle"]
    /\ lerr' = NoError
    /\ UNCHANGED <<pa, file, idents, werr, rd, notPAVars>>

\* A lookup begins: pa.blocklistMu.RLock()
ReadLock(r, l) ==
    /\ rd[r].pc = "idle"
    /\ canRLock(mu)
    /\ mu' = [mu EXCEPT !.readers = @ \cup {r}]
    /\ rd' = [rd EXCEPT ![r] = [IdleReader EXCEPT !.pc = "first", !.lookup = l]]
    /\ UNCHANGED <<pa, file, idents, lerr, werr, ld, notPAVars>>

\* The lookup reads its first table: wildcardFqdnBlocklist in
\* checkWildcardBlocklist, which then returns; domainBlocklist in
\* checkBlocklists, which returns if the table is nil or holds the name.
ReadFirst(r) ==
    /\ rd[r].pc = "first"
    /\ LET l == rd[r].lookup
           t == IF l.fn = "checkWildcardBlocklist"
                THEN "wildcardFqdnBlocklist" ELSE "domainBlocklist"
           seen == [rd[r].seen EXCEPT ![t] = pa[t],
                                      !.fqdnBlocklist = Table({}),
                                      !.ipPrefixBlocklist = NilTable]
           v == IF l.fn = "checkWildcardBlocklist"
                THEN checkWildcardBlocklist(seen, l.ident.Value)
                ELSE checkBlocklists(seen, l.ident)
       IN  rd' = [rd EXCEPT ![r] =
                    IF l.fn = "checkWildcardBlocklist" \/ v # NoError
                    THEN [@ EXCEPT !.seen = [rd[r].seen EXCEPT ![t] = pa[t]],
                                   !.read = {t}, !.verdict = v, !.pc = "unlock"]
                    ELSE [@ EXCEPT !.seen = [rd[r].seen EXCEPT ![t] = pa[t]],
                                   !.read = {t}, !.pc = "second"]]
    /\ UNCHANGED <<pa, mu, file, idents, lerr, werr, ld, notPAVars>>

\* checkBlocklists reads its second table, fqdnBlocklist for a DNS name and
\* ipPrefixBlocklist for an IP address, and returns.
ReadSecond(r) ==
    /\ rd[r].pc = "second"
    /\ LET l == rd[r].lookup
           t == IF l.ident.Type = "dns"
                THEN "fqdnBlocklist" ELSE "ipPrefixBlocklist"
           seen == [rd[r].seen EXCEPT ![t] = pa[t]]
       IN  rd' = [rd EXCEPT ![r] =
                    [@ EXCEPT !.seen = seen, !.read = @ \cup {t},
                              !.verdict = checkBlocklists(seen, l.ident),
                              !.pc = "unlock"]]
    /\ UNCHANGED <<pa, mu, file, idents, lerr, werr, ld, notPAVars>>

\* The deferred pa.blocklistMu.RUnlock()
ReadUnlock(r) ==
    /\ rd[r].pc = "unlock"
    /\ mu' = [mu EXCEPT !.readers = @ \ {r}]
    /\ rd' = [rd EXCEPT ![r].pc = "idle"]
    /\ UNCHANGED <<pa, file, idents, lerr, werr, ld, notPAVars>>

NextPA ==
    \/ \E f \in ReloadFiles : ReplaceFile(f)
    \/ LoadStart
    \/ LoadLock
    \/ LoadAssign("domainBlocklist", "fqdnBlocklist")
    \/ LoadAssign("fqdnBlocklist", "wildcardFqdnBlocklist")
    \/ LoadAssign("wildcardFqdnBlocklist", "ipPrefixBlocklist")
    \/ LoadAssign("ipPrefixBlocklist", "unlock")
    \/ LoadUnlock
    \/ \E r \in Readers :
          \/ \E l \in Lookups : ReadLock(r, l)
          \/ ReadFirst(r)
          \/ ReadSecond(r)
          \/ ReadUnlock(r)

SpecPA == InitPA /\ [][NextPA]_vars

\* The table sets a reader may see: none loaded yet, or those of one policy.
Versions ==
    {New({}, {})} \cup
    {buildTables(f.policy) : f \in
        {g \in ReloadFiles : readPolicyFile(g) = NoError
                             /\ processIdentPolicy(g.policy).err = NoError}}

\* What the lookup returns when it runs against the tables v.
VerdictUnder(v, l) ==
    IF l.fn = "checkWildcardBlocklist"
    THEN checkWildcardBlocklist(v, l.ident.Value)
    ELSE checkBlocklists(v, l.ident)

\* C9: while a reader holds the lock the four tables are those of one policy
\* (or all still unloaded); the tables a lookup has read all belong to one such
\* set, and the lookup returns what it returns against that set.
C9_NoMixedTables ==
    \A r \in Readers :
        /\ r \in mu.readers =>
              \E v \in Versions : \A t \in TableNames : pa[t] = v[t]
        /\ \E v \in Versions :
              /\ \A t \in rd[r].read : rd[r].seen[t] = v[t]
              /\ rd[r].verdict # NotCalled =>
                    rd[r].verdict = VerdictUnder(v, rd[r].lookup)

\* C9 witness: with one policy installed and the tables of a different policy
\* built, the loader waits for the lock while a reader that has read its first
\* table is about to read its second.
C9_Witness ==
    /\ ld.pc = "lock"
    /\ ~pa.domainBlocklist.isNil
    /\ \A t \in TableNames : ld.tables[t] # pa[t]
    /\ \E r \in Readers : rd[r].pc = "second" /\ r \in mu.readers

\* The policy file has one of the defects LoadIdentPolicyFile must refuse.
Defective(f) ==
    \/ f.policy.HighRiskBlockedNames = {}
    \/ f.policy.ExactBlockedNames = {}
    \/ \E v \in f.policy.ExactBlockedNames : Len(v) < 2
    \/ \E p \in f.policy.AdminBlockedPrefixes : ~ParsePrefixOK(p)

\* A step that is a whole call of LoadIdentPolicyFile returning an error.
FailedLoad ==
    /\ ld.pc = "idle" /\ ld'.pc = "idle"
    /\ ld'.loads = ld.loads + 1

\* C12: a call of LoadIdentPolicyFile on a file with an empty HighRisk or Exact
\* list, a one-label exact name or a malformed prefix returns an error, and a
\* call that returns an error leaves all four tables as they were; between
\* calls the tables are always those of one whole policy.
C12_FailedLoadKeepsTables ==
    /\ [](ld.pc = "idle" => \E v \in Versions : \A t \in TableNames : pa[t] = v[t])
    /\ [][/\ (ld.pc = "idle" /\ ld'.loads = ld.loads + 1 /\ Defective(file))
                => (FailedLoad /\ lerr'.kind = "error")
          /\ FailedLoad
                => (lerr'.kind = "error" /\ \A t \in TableNames : pa'[t] = pa[t])]_vars

\* C12 witness: with a policy installed by an earlier call, a call on a file
\* whose HighRisk list is empty has returned its error.
C12_Witness ==
    /\ ld.pc = "idle" /\ ld.loads >= 2
    /\ ~pa.domainBlocklist.isNil
    /\ file.policy.HighRiskBlockedNames = {}
    /\ lerr = Errorf("no entries in HighRiskBlockedNames")

(***************************************************************************)
(* SpecIssue: one call of WillingToIssue running while the policy file is  *)
(* reloaded.  The call takes the read lock anew for each blocklist lookup; *)
(* the loader is the one of SpecPA.                                        *)
(***************************************************************************)
CallIdentPool ==
    {DNS(<<"z", "a", "b", "c">>), DNS(<<"*", "b", "c">>), DNS(<<"a", "d", "c">>),
     IP(<<"10", "11">>)}

CallIdentLists == UNION {[1 .. n -> CallIdentPool] : n \in 0 .. MaxCallIdents}

\* The four tables of a Policy Authority.
TablesOf(p) == [t \in TableNames |-> p[t]]

\* The Policy Authority with the four tables v.
WithTables(p, v) ==
    [p EXCEPT !.domainBlocklist = v.domainBlocklist,
              !.fqdnBlocklist = v.fqdnBlocklist,
              !.wildcardFqdnBlocklist = v.wildcardFqdnBlocklist,
              !.ipPrefixBlocklist = v.ipPrefixBlocklist]

\* No call yet.  inforce is the policy last installed whole, versions the
\* policies in force at some time during the call, log the lookups made.
NoIssueCall(p) ==
    [pc |-> "idle", i |-> 0, stage |-> "", subErrors |-> <<>>,
     inforce |-> TablesOf(p), versions |-> {}, log |-> <<>>]

InitIssue ==
    /\ IdleOrder /\ IdleFin /\ IdleRL
    /\ IdleVD /\ IdleCH /\ IdleAZ /\ IdleST /\ IdleRG /\ IdleIN
    /\ \E e \in EnabledSets : pa = New(e, ChallengeTypes)
    /\ mu = FreeMutex
    /\ file \in {f \in ReloadFiles : f.policy.AdminBlockedPrefixes # {<<"bad">>}
                                      /\ <<"c">> \notin f.policy.ExactBlockedNames}
    /\ idents = <<>> /\ werr = NotCalled
    /\ lerr = NotCalled
    /\ ld = [pc |-> "idle", tables |-> New({}, {}), loads |-> 0]
    /\ rd = NoIssueCall(pa)

\* The file on disk is replaced by another loadable or unloadable one.
CallReplaceFile(f) ==
    /\ f.policy.AdminBlockedPrefixes # {<<"bad">>}
    /\ <<"c">> \notin f.policy.ExactBlockedNames
    /\ ReplaceFile(f)

\* pa.blocklistMu.Unlock(); return nil.  The policy just installed is in
\* force from here on.
CallLoadUnlock ==
    /\ ld.pc = "unlock"
    /\ mu' = [mu EXCEPT !.writer = FALSE]
    /\ ld' = [ld EXCEPT !.pc = "idle"]
    /\ lerr' = NoError
    /\ rd' = [rd EXCEPT !.inforce = TablesOf(pa),
                        !.versions = IF rd.pc = "loop"
                                     THEN @ \cup {TablesOf(pa)} ELSE @]
    /\ UNCHANGED <<pa, file, idents, werr, notPAVars>>

\* The stage at which the loop body starts for the identifier at position i.
FirstStage(ids, i) ==
    IF i > Len(ids) THEN "return"
    ELSE IF ids[i].Type \notin pa.enabledIdentifiers THEN "disabled"
    ELSE IF ids[i].Type = "dns" /\ CountWildcards(ids[i].Value) > 0 THEN "wildcard"
    ELSE "blocklists"

\* WillingToIssue up to its loop: WellFormedIdentifiers.
CallStart(ids) ==
    /\ rd.pc = "idle"
    /\ idents' = ids
    /\ IF WellFormedIdentifiers(ids).kind # "nil"
       THEN /\ werr' = WellFormedIdentifiers(ids)
            /\ rd' = [rd EXCEPT !.pc = "done", !.versions = {rd.inforce}]
       ELSE /\ UNCHANGED werr
            /\ rd' = [rd EXCEPT !.pc = "loop", !.i = 1,
                                !.stage = FirstStage(ids, 1),
                                !.versions = {rd.inforce}]
    /\ UNCHANGED <<pa, mu, file, lerr, ld, notPAVars>>

\* The loop body for an identifier of a disabled type.  IdentifierTypeEnabled
\* holds the read lock while it looks.
CallTypeDisabled ==
    /\ rd.pc = "loop" /\ rd.stage = "disabled"
    /\ canRLock(mu)
    /\ rd' = [rd EXCEPT
                !.subErrors = Append(@, subError(idents[rd.i],
                                 RejectedIdentifierError("disabled identifier type"))),
                !.i = @ + 1, !.stage = FirstStage(idents, rd.i + 1)]
    /\ UNCHANGED <<pa, mu, file, idents, lerr, werr, ld, notPAVars>>

\* checkWildcardBlocklist(baseDomain), from RLock to RUnlock.
CallCheckWildcard ==
    /\ rd.pc = "loop" /\ rd.stage = "wildcard"
    /\ canRLock(mu)
    /\ LET ident == idents[rd.i]
           err == checkWildcardBlocklist(pa, TrimWildcardPrefix(ident.Value))
           entry == [fn |-> "checkWildcardBlocklist", ident |-> ident,
                     saw |-> TablesOf(pa), err |-> err]
       IN  rd' = IF err # NoError
                 THEN [rd EXCEPT !.subErrors = Append(@, subError(ident, err)),
                                 !.log = Append(@, entry),
                                 !.i = @ + 1, !.stage = FirstStage(idents, rd.i + 1)]
                 ELSE [rd EXCEPT !.log = Append(@, entry), !.stage = "blocklists"]
    /\ UNCHANGED <<pa, mu, file, idents, lerr, werr, ld, notPAVars>>

\* checkBlocklists(ident), from RLock to RUnlock.
CallCheckBlocklists ==
    /\ rd.pc = "loop" /\ rd.stage = "blocklists"
    /\ canRLock(mu)
    /\ LET ident == idents[rd.i]
           err == checkBlocklists(pa, ident)
           entry == [fn |-> "checkBlocklists", ident |-> ident,
                     saw |-> TablesOf(pa), err |-> err]
       IN  rd' = [rd EXCEPT
                    !.subErrors = IF err # NoError
                                  THEN Append(@, subError(ident, err)) ELSE @,
                    !.log = Append(@, entry),
                    !.i = @ + 1, !.stage = FirstStage(idents, rd.i + 1)]
    /\ UNCHANGED <<pa, mu, file, idents, lerr, werr, ld, notPAVars>>

\* return combineSubErrors(subErrors)
CallReturn ==
    /\ rd.pc = "loop" /\ rd.stage = "return"
    /\ werr' = combineSubErrors(rd.subErrors)
    /\ rd' = [rd EXCEPT !.pc = "done"]
    /\ UNCHANGED <<pa, mu, file, idents, lerr, ld, notPAVars>>

NextIssue ==
    \/ \E f \in ReloadFiles : CallReplaceFile(f)
    \/ LoadStart
    \/ LoadLock
    \/ LoadAssign("domainBlocklist", "fqdnBlocklist")
    \/ LoadAssign("fqdnBlocklist", "wildcardFqdnBlocklist")
    \/ LoadAssign("wildcardFqdnBlocklist", "ipPrefixBlocklist")
    \/ LoadAssign("ipPrefixBlocklist", "unlock")
    \/ CallLoadUnlock
    \/ \E ids \in CallIdentLists : CallStart(ids)
    \/ CallTypeDisabled
    \/ CallCheckWildcard
    \/ CallCheckBlocklists
    \/ CallReturn

SpecIssue == InitIssue /\ [][NextIssue]_vars

\* C26: the verdict of a WillingToIssue call is the verdict the whole call
\* gives under one of the policies in force during the call, also when a
\* reload completes while the call runs.
C26_OnePolicyPerCall ==
    rd.pc = "done" =>
       \E v \in rd.versions : werr = WillingToIssue(WithTables(pa, v), idents)

\* C26 amended: every blocklist lookup of a WillingToIssue call is decided
\* against the four tables of one policy that was in force during the call,
\* and the verdict combines the lookups' results; when all lookups of the call
\* met the same policy, the verdict is the one the whole call gives under it.
C26_OnePolicyPerLookup ==
    rd.pc = "done" =>
       /\ \A k \in 1 .. Len(rd.log) :
             /\ rd.log[k].saw \in rd.versions
             /\ \E v \in Versions : \A t \in TableNames : rd.log[k].saw[t] = v[t]
       /\ \A v \in rd.versions :
             (\A k \in 1 .. Len(rd.log) : rd.log[k].saw = v)
                => werr = WillingToIssue(WithTables(pa, v), idents)

\* C26 witness: a reload completed between the two lookups of a call, which
\* therefore met two different policies, and the call has returned.
C26_Witness ==
    /\ rd.pc = "done"
    /\ Len(rd.log) = 2
    /\ rd.log[1].saw # rd.log[2].saw
    /\ ~rd.log[1].saw.domainBlocklist.isNil

\* C26 witness for the unchanged part: a call of two identifiers that met one
\* policy throughout has returned that policy's verdict, a rejection.
C26_WitnessOnePolicy ==
    /\ rd.pc = "done"
    /\ Len(rd.log) = 2
    /\ rd.versions = {rd.log[1].saw}
    /\ ~rd.log[1].saw.domainBlocklist.isNil
    /\ werr.kind = "RejectedIdentifier"

(***************************************************************************)
(* SpecRequest: requests of several identifiers put to                     *)
(* WellFormedIdentifiers and to WillingToIssue, before and after a policy  *)
(* is loaded.                                                              *)
(***************************************************************************)
RequestPool ==
    {DNS(<<"a", "b", "c">>), DNS(<<"z", "a", "b", "c">>), DNS(<<"c">>),
     DNS(<<"a", "b">>), IP(<<"10", "11">>),
     [Type |-> "email", Value |-> <<"a", "b", "c">>]}

RequestLists == UNION {[1 .. n -> RequestPool] : n \in 0 .. MaxNames}

InitRequest ==
    /\ IdleOrder /\ IdleFin /\ IdleRL
    /\ IdleVD /\ IdleCH /\ IdleAZ /\ IdleST /\ IdleRG /\ IdleIN
    /\ \E e \in EnabledSets : pa = New(e, ChallengeTypes)
    /\ mu = FreeMutex
    /\ file \in {f \in ReloadFiles : ~Defective(f)}
    /\ idents \in RequestLists
    /\ lerr = NotCalled
    /\ werr = NotCalled
    /\ ld = <<>> /\ rd = <<>>

\* WellFormedIdentifiers(idents)
WellFormedIdentifiersCall ==
    /\ werr' = WellFormedIdentifiers(idents)
    /\ UNCHANGED <<pa, mu, file, idents, lerr, ld, rd, notPAVars>>

NextRequest ==
    \/ LoadIdentPolicyFile
    \/ WillingToIssueCall
    \/ WellFormedIdentifiersCall

SpecRequest == InitRequest /\ [][NextRequest]_vars

\* What WillingToIssue finds wrong with one identifier of a well-formed request.
policyCheck(ident) == willingToIssueIdentifier(pa, ident)

\* The places in the request of the identifiers for which E gives an error.
Offending(E(_)) == {i \in 1 .. Len(idents) : E(idents[i]) # NoError}

\* Error e carries one sub-error for each identifier E finds fault with, in the
\* order of the request, with the identifier and with the kind and detail of
\* its own error (an error that is not a BoulderError is reported as a
\* RejectedIdentifier with its text).
OneSubErrorEach(e, E(_)) ==
    /\ e.kind = "RejectedIdentifier"
    /\ Len(e.subErrors) = Cardinality(Offending(E))
    /\ \A i \in Offending(E) :
          LET s == e.subErrors[Cardinality({k \in Offending(E) : k <= i})]
          IN  /\ s.Identifier = idents[i]
              /\ s.detail = E(idents[i]).detail
              /\ s.kind = IF E(idents[i]).kind = "error"
                          THEN "RejectedIdentifier" ELSE E(idents[i]).kind

C13_WitnessMalformed ==
    /\ Cardinality(Offending(wellFormedIdentifier)) = 2
    /\ werr.kind = "RejectedIdentifier"
    /\ Len(werr.subErrors) = 2
    /\ werr.subErrors[1].kind = "Malformed"
    /\ werr.subErrors[1].detail # werr.subErrors[2].detail

(***************************************************************************)
(* SpecValidDomain: ValidDomain applied to a name and to its lowercase     *)
(* form.                                                                   *)
(***************************************************************************)
\* strings.ToLower on a label and on a name.
ToLowerLabel(l) == IF l = "A" THEN "a" ELSE l
ToLower(d) == [i \in 1 .. Len(d) |-> ToLowerLabel(d[i])]

\* The labels names are made of: lowercase, uppercase, numeric, the wildcard,
\* and a label with a character that is no DNS character.
DomainLabels == {"a", "c", "A", "*", "10", "11", "?"}

Domains == UNION {[1 .. n -> DomainLabels] : n \in 0 .. MaxDomainLabels}

NoVerdict == [given |-> NotCalled, lowered |-> NotCalled]

InitValidDomain ==
    /\ IdleOrder /\ IdleFin /\ IdleRL /\ IdlePA
    /\ IdleCH /\ IdleAZ /\ IdleST /\ IdleRG /\ IdleIN
    /\ dname \in Domains
    /\ verdict = NoVerdict

\* ValidDomain(domain)
ValidDomainCall ==
    /\ verdict.given = NotCalled
    /\ verdict' = [verdict EXCEPT !.given = ValidDomain(dname)]
    /\ UNCHANGED <<dname, notVDVars>>

\* ValidDomain(strings.ToLower(domain))
ValidDomainLowerCall ==
    /\ verdict.lowered = NotCalled
    /\ verdict' = [verdict EXCEPT !.lowered = ValidDomain(ToLower(dname))]
    /\ UNCHANGED <<dname, notVDVars>>

NextValidDomain ==
    \/ ValidDomainCall
    \/ ValidDomainLowerCall

SpecValidDomain == InitValidDomain /\ [][NextValidDomain]_vars

BothCalled == verdict.given # NotCalled /\ verdict.lowered # NotCalled

ChallengeTypesForEnabled(p, ident) ==
    LET all == IF ident.Type = "dns"
               THEN IF HasWildcardPrefix(ident.Value) THEN <<"dns-01">>
                    ELSE <<"http-01", "dns-01", "tls-alpn-01">>
               ELSE IF ident.Type = "ip" THEN <<"http-01", "tls-alpn-01">>
               ELSE <<>>
    IN  [types |-> SelectSeq(all, LAMBDA t : t \in p.enabledChallenges),
         err |-> IF ident.Type \in {"dns", "ip"} THEN NoError
                 ELSE Errorf("unrecognized identifier type")]

\* ChallengeTypesFor: the list of challenge types and the error.
ChallengeTypesFor(p, ident) ==
    IF ident.Type = "dns"
    THEN IF HasWildcardPrefix(ident.Value)
         THEN [types |-> <<"dns-01">>, err |-> NoError]
         ELSE [types |-> <<"http-01", "dns-01", "tls-alpn-01">>,
               err |-> NoError]
    ELSE IF ident.Type = "ip"
    THEN [types |-> <<"http-01", "tls-alpn-01">>, err |-> NoError]
    ELSE [types |-> <<>>, err |-> Errorf("unrecognized identifier type")]

\* ChallengeTypeEnabled
ChallengeTypeEnabled(p, t) == t \in p.enabledChallenges

\* Authorization.SolvedBy: the type of the first valid challenge, or an error.
SolvedBy(a) ==
    IF Len(a.Challenges) = 0
    THEN [chall |-> "", err |-> Errorf("authorization has no challenges")]
    ELSE IF \E i \in 1 .. Len(a.Challenges) : a.Challenges[i].Status = "valid"
    THEN LET i == CHOOSE i \in 1 .. Len(a.Challenges) :
                     /\ a.Challenges[i].Status = "valid"
                     /\ \A j \in 1 .. i - 1 : a.Challenges[j].Status # "valid"
         IN  [chall |-> a.Challenges[i].Type, err |-> NoError]
    ELSE [chall |-> "",
          err |-> Errorf("authorization not solved by any challenge")]

\* slices.Contains
SliceContains(s, x) == \E i \in 1 .. Len(s) : s[i] = x

\* CheckAuthzChallenges without the check that the type is enabled.
CheckAuthzChallengesAnyType(p, a) ==
    IF SolvedBy(a).err # NoError THEN SolvedBy(a).err
    ELSE IF ChallengeTypesFor(p, a.Identifier).err # NoError
    THEN ChallengeTypesFor(p, a.Identifier).err
    ELSE IF ~SliceContains(ChallengeTypesFor(p, a.Identifier).types,
                           SolvedBy(a).chall)
    THEN Errorf("authorization fulfilled by inapplicable challenge type")
    ELSE NoError

CheckAuthzChallenges(p, a) ==
    IF SolvedBy(a).err # NoError THEN SolvedBy(a).err
    ELSE IF ~ChallengeTypeEnabled(p, SolvedBy(a).chall)
    THEN Errorf("authorization fulfilled by disabled challenge type")
    ELSE IF ChallengeTypesFor(p, a.Identifier).err # NoError
    THEN ChallengeTypesFor(p, a.Identifier).err
    ELSE IF ~SliceContains(ChallengeTypesFor(p, a.Identifier).types,
                           SolvedBy(a).chall)
    THEN Errorf("authorization fulfilled by inapplicable challenge type")
    ELSE NoError

\* The identifiers of the authorizations: names with and without a wildcard
\* label, the lone label "*", an address, another type.
ChallengeIdents ==
    {DNS(<<"a", "b", "c">>), DNS(<<"*", "b", "c">>), DNS(<<"*">>),
     IP(<<"10", "11">>), [Type |-> "email", Value |-> <<"a", "b", "c">>]}

Challenges == [Type : ChallengeTypes, Status : {"pending", "valid", "invalid"}]

Authorizations ==
    [Identifier : ChallengeIdents,
     Challenges : UNION {[1 .. n -> Challenges] : n \in 0 .. MaxChallenges}]

NoCall == [fn |-> "none", types |-> <<>>, err |-> NotCalled]

InitChallenges ==
    /\ IdleOrder /\ IdleFin /\ IdleRL
    /\ IdleVD /\ IdleAZ /\ IdleST /\ IdleRG /\ IdleIN
    /\ \E ch \in SUBSET ChallengeTypes : pa = New({"dns", "ip"}, ch)
    /\ mu = FreeMutex
    /\ file = <<>> /\ idents = <<>> /\ ld = <<>> /\ rd = <<>>
    /\ lerr = NotCalled /\ werr = NotCalled
    /\ authz \in Authorizations
    /\ cres = NoCall

\* ChallengeTypesFor(authz.Identifier)
ChallengeTypesForCall ==
    /\ cres' = [fn |-> "ChallengeTypesFor",
                types |-> ChallengeTypesFor(pa, authz.Identifier).types,
                err |-> ChallengeTypesFor(pa, authz.Identifier).err]
    /\ UNCHANGED <<authz, paVars, notCHVars>>

\* CheckAuthzChallenges(authz)
CheckAuthzChallengesCall ==
    /\ cres' = [fn |-> "CheckAuthzChallenges", types |-> <<>>,
                err |-> CheckAuthzChallenges(pa, authz)]
    /\ UNCHANGED <<authz, paVars, notCHVars>>

NextChallenges ==
    \/ ChallengeTypesForCall
    \/ CheckAuthzChallengesCall

SpecChallenges == InitChallenges /\ [][NextChallenges]_vars

\* The set of the challenge types in a list.
TypeSet(s) == {s[i] : i \in 1 .. Len(s)}

\* The leftmost label of the name is the wildcard.
LeftmostIsWildcard(d) == Len(d) >= 1 /\ d[1] = "*"

\* The challenge types of the claim for an identifier, given which DNS names
\* count as wildcards.
ExpectedTypes(ident, wildcard) ==
    IF ident.Type = "dns"
    THEN IF wildcard THEN {"dns-01"} ELSE {"http-01", "dns-01", "tls-alpn-01"}
    ELSE IF ident.Type = "ip" THEN {"http-01", "tls-alpn-01"}
    ELSE {}

TypesAsExpected(wildcard) ==
    cres.fn = "ChallengeTypesFor" =>
       /\ TypeSet(cres.types) = ExpectedTypes(authz.Identifier, wildcard)
       /\ Len(cres.types) = Cardinality(TypeSet(cres.types))
       /\ cres.err = NoError <=> authz.Identifier.Type \in {"dns", "ip"}

Solving ==
    {authz.Challenges[i].Type : i \in
        {k \in 1 .. Len(authz.Challenges) :
            /\ authz.Challenges[k].Status = "valid"
            /\ \A j \in 1 .. k - 1 : authz.Challenges[j].Status # "valid"}}

\* C16: CheckAuthzChallenges returns success exactly when the authorization
\* has a solving challenge, its type is enabled, and its type is among
\* ChallengeTypesFor(authz.Identifier); in every other case it returns an error.
C16_CheckAuthzChallenges ==
    cres.fn = "CheckAuthzChallenges" =>
       (cres.err = NoError <=>
          \E t \in Solving :
             /\ t \in pa.enabledChallenges
             /\ ChallengeTypesFor(pa, authz.Identifier).err = NoError
             /\ t \in TypeSet(ChallengeTypesFor(pa, authz.Identifier).types))

\* C16 witness: a wildcard authorization solved by http-01, which is enabled,
\* has been refused as fulfilled by an inapplicable challenge type.
C16_Witness ==
    /\ cres.fn = "CheckAuthzChallenges"
    /\ authz.Identifier = DNS(<<"*", "b", "c">>)
    /\ Solving = {"http-01"}
    /\ "http-01" \in pa.enabledChallenges
    /\ cres.err = Errorf("authorization fulfilled by inapplicable challenge type")

\* C16 witness for success: an address solved by the enabled tls-alpn-01.
C16_WitnessAccepted ==
    /\ cres.fn = "CheckAuthzChallenges"
    /\ authz.Identifier = IP(<<"10", "11">>)
    /\ Solving = {"tls-alpn-01"}
    /\ cres.err = NoError

(***************************************************************************)
(* SpecAuthz: one row of table authz2 through its life -- created by       *)
(* newAuthzReqToModel, finalized, deactivated or revoked by the Storage    *)
(* Authority, and read back through modelToAuthzPB.                        *)
(***************************************************************************)
\* challTypeToUint and uintToChallType
ChallTypeNames == {"http-01", "dns-01", "tls-alpn-01", "dns-account-01"}
challTypeToUint(t) ==
    IF t = "http-01" THEN 0
    ELSE IF t = "dns-01" THEN 1
    ELSE IF t = "tls-alpn-01" THEN 2
    ELSE IF t = "dns-account-01" THEN 3
    ELSE 0
uintToChallType(u) ==
    IF u = 0 THEN "http-01"
    ELSE IF u = 1 THEN "dns-01"
    ELSE IF u = 2 THEN "tls-alpn-01"
    ELSE IF u = 3 THEN "dns-account-01"
    ELSE ""

\* identifierTypeToUint and uintToIdentifierType
identifierTypeToUint(t) == IF t = "ip" THEN 1 ELSE 0
uintToIdentifierType(u) ==
    IF u = 0 THEN "dns" ELSE IF u = 1 THEN "ip" ELSE ""

\* uintToStatus
uintToStatus(u) ==
    IF u = StatusPending THEN "pending"
    ELSE IF u = StatusValid THEN "valid"
    ELSE IF u = StatusInvalid THEN "invalid"
    ELSE IF u = StatusDeactivated THEN "deactivated"
    ELSE IF u = StatusRevoked THEN "revoked"
    ELSE ""

\* The uint8 bitmap of challenge types: (b >> pos) & 1 and b | 1 << pos.
HasBit(b, pos) == (b \div (2 ^ pos)) % 2 = 1
SetBit(b, pos) == IF HasBit(b, pos) THEN b ELSE (b + 2 ^ pos) % 256

\* The bitmap after the loop over authz.ChallengeTypes.
RECURSIVE BitmapOf(_)
BitmapOf(types) ==
    IF types = {} THEN 0
    ELSE LET t == CHOOSE t \in types : TRUE
         IN  SetBit(BitmapOf(types \ {t}), challTypeToUint(t))

\* A nil pointer, and a pointer to a value.
Nil == <<>>
Ptr(v) == <<v>>
NoRow == [exists |-> FALSE]

\* The alphabet of base64.RawURLEncoding; a character's value is its position
\* less one.
Base64Chars ==
    <<"A", "B", "C", "D", "E", "F", "G", "H", "I", "J", "K", "L", "M", "N", "O",
      "P", "Q", "R", "S", "T", "U", "V", "W", "X", "Y", "Z", "a", "b", "c", "d",
      "e", "f", "g", "h", "i", "j", "k", "l", "m", "n", "o", "p", "q", "r", "s",
      "t", "u", "v", "w", "x", "y", "z", "0", "1", "2", "3", "4", "5", "6", "7",
      "8", "9", "-", "_">>
Base64Value(c) == (CHOOSE i \in DOMAIN Base64Chars : Base64Chars[i] = c) - 1

\* The bytes of a sequence of 6-bit values: three bytes for each four values,
\* one byte for two values left over and two bytes for three, the bits beyond
\* the last whole byte being dropped unexamined.
RECURSIVE decodeQuanta(_)
decodeQuanta(v) ==
    IF Len(v) = 0 THEN <<>>
    ELSE IF Len(v) = 2 THEN <<(v[1] * 64 + v[2]) \div 16>>
    ELSE IF Len(v) = 3
    THEN LET n == v[1] * 4096 + v[2] * 64 + v[3]
         IN  <<n \div 1024, (n \div 4) % 256>>
    ELSE LET n == v[1] * 262144 + v[2] * 4096 + v[3] * 64 + v[4]
         IN  <<n \div 65536, (n \div 256) % 256, n % 256>>
                \o decodeQuanta(SubSeq(v, 5, Len(v)))

\* base64.RawURLEncoding.DecodeString: an error for a character outside the
\* alphabet or a single character left over.
DecodeString(str) ==
    IF \E i \in DOMAIN str : \A j \in DOMAIN Base64Chars : Base64Chars[j] # str[i]
    THEN [err |-> TRUE, bytes |-> <<>>]
    ELSE IF Len(str) % 4 = 1 THEN [err |-> TRUE, bytes |-> <<>>]
    ELSE [err |-> FALSE,
          bytes |-> decodeQuanta([i \in DOMAIN str |-> Base64Value(str[i])])]

\* base64.RawURLEncoding.EncodeToString
RECURSIVE EncodeToString(_)
EncodeToString(b) ==
    IF Len(b) = 0 THEN <<>>
    ELSE IF Len(b) = 1
    THEN LET n == b[1] * 16
         IN  <<Base64Chars[(n \div 64) + 1], Base64Chars[(n % 64) + 1]>>
    ELSE IF Len(b) = 2
    THEN LET n == (b[1] * 256 + b[2]) * 4
         IN  <<Base64Chars[(n \div 4096) + 1], Base64Chars[((n \div 64) % 64) + 1],
               Base64Chars[(n % 64) + 1]>>
    ELSE LET n == b[1] * 65536 + b[2] * 256 + b[3]
         IN  <<Base64Chars[(n \div 262144) + 1],
               Base64Chars[((n \div 4096) % 64) + 1],
               Base64Chars[((n \div 64) % 64) + 1], Base64Chars[(n % 64) + 1]>>
                \o EncodeToString(SubSeq(b, 4, Len(b)))

\* sapb.NewAuthzRequest: identifier, registration, expiry, offered challenge
\* types and token.  Here the token either decodes or does not.
NewAuthzRequests ==
    [IdentifierType : {"dns", "ip"}, IdentifierValue : {<<"a", "c">>},
     RegistrationID : {1}, Expires : Times,
     ChallengeTypes : SUBSET ChallTypeNames,
     Token : {<<"Q", "Q">>, <<"Q">>}]

\* newAuthzReqToModel: the row, or an error when the token does not decode.
newAuthzReqToModel(req) ==
    IF DecodeString(req.Token).err THEN [err |-> TRUE, am |-> NoRow]
    ELSE [err |-> FALSE,
          am |-> [exists |-> TRUE,
                  IdentifierType |-> identifierTypeToUint(req.IdentifierType),
                  IdentifierValue |-> req.IdentifierValue,
                  RegistrationID |-> req.RegistrationID,
                  Status |-> StatusPending,
                  Expires |-> req.Expires,
                  Challenges |-> BitmapOf(req.ChallengeTypes),
                  Token |-> DecodeString(req.Token).bytes,
                  Attempted |-> Nil,
                  AttemptedAt |-> Nil,
                  ValidationError |-> FALSE]]

\* populateAttemptedFields: invalid when the row holds a validation error,
\* valid otherwise.
populateAttemptedFields(row, challenge) ==
    [challenge EXCEPT !.Status = IF row.ValidationError THEN "invalid" ELSE "valid"]

\* The challenges listed when an attempt hides none of them.
RECURSIVE challengesUpToKeepAll(_, _)
challengesUpToKeepAll(row, pos) ==
    IF pos < 0 THEN <<>>
    ELSE LET before == challengesUpToKeepAll(row, pos - 1)
             challenge == [Type |-> uintToChallType(pos), Status |-> "pending",
                           Token |-> EncodeToString(row.Token),
                           Validated |-> Nil]
         IN  IF ~HasBit(row.Challenges, pos) THEN before
             ELSE IF row.Attempted # Nil
                     /\ uintToChallType(row.Attempted[1]) = uintToChallType(pos)
             THEN Append(before,
                     [populateAttemptedFields(row, challenge)
                         EXCEPT !.Validated = row.AttemptedAt])
             ELSE Append(before, challenge)

\* The challenges modelToAuthzPB lists, bit by bit from position 0 up to pos.
RECURSIVE challengesUpTo(_, _)
challengesUpTo(row, pos) ==
    IF pos < 0 THEN <<>>
    ELSE LET before == challengesUpTo(row, pos - 1)
             challenge == [Type |-> uintToChallType(pos), Status |-> "pending",
                           Token |-> EncodeToString(row.Token),
                           Validated |-> Nil]
         IN  IF ~HasBit(row.Challenges, pos) THEN before
             ELSE IF row.Attempted # Nil
             THEN IF uintToChallType(row.Attempted[1]) = uintToChallType(pos)
                  THEN Append(before,
                          [populateAttemptedFields(row, challenge)
                              EXCEPT !.Validated = row.AttemptedAt])
                  ELSE before
             ELSE Append(before, challenge)

\* modelToAuthzPB
modelToAuthzPB(row) ==
    IF uintToIdentifierType(row.IdentifierType) = ""
    THEN [err |-> TRUE, Status |-> "", Challenges |-> <<>>]
    ELSE [err |-> FALSE, Status |-> uintToStatus(row.Status),
          Identifier |-> [Type |-> uintToIdentifierType(row.IdentifierType),
                          Value |-> row.IdentifierValue],
          RegistrationID |-> row.RegistrationID,
          Expires |-> row.Expires,
          Challenges |-> challengesUpTo(row, 7)]

\* The types the row's bitmap offers.
Offered(row) == {t \in ChallTypeNames : HasBit(row.Challenges, challTypeToUint(t))}

\* FinalizeAuthorization that does not require the row to be pending.
finalizeAuthorizationAnyStatus(row, status, attempted, t) ==
    [err |-> FALSE,
     am |-> [row EXCEPT !.Status = status,
                        !.Attempted = Ptr(challTypeToUint(attempted)),
                        !.AttemptedAt = Ptr(t),
                        !.ValidationError = (status = StatusInvalid)]]

\* FinalizeAuthorization: on a pending row, status valid or invalid, the
\* attempted challenge, the attempt time and (when invalid) the error, in one
\* update; on any other row an error and no change.
finalizeAuthorization(row, status, attempted, t) ==
    IF row.Status # StatusPending THEN [err |-> TRUE, am |-> row]
    ELSE [err |-> FALSE,
          am |-> [row EXCEPT !.Status = status,
                             !.Attempted = Ptr(challTypeToUint(attempted)),
                             !.AttemptedAt = Ptr(t),
                             !.ValidationError = (status = StatusInvalid)]]

\* DeactivateAuthorization: a client may deactivate an authorization that is
\* pending, or one that is valid and may already have authorized an issuance.
deactivateAuthorization(row) ==
    IF row.Status \notin {StatusPending, StatusValid}
    THEN [err |-> TRUE, am |-> row]
    ELSE [err |-> FALSE, am |-> [row EXCEPT !.Status = StatusDeactivated]]

\* Revocation of a certificate carrying the authorization: valid -> revoked.
revokeAuthorization(row) ==
    IF row.Status # StatusValid THEN [err |-> TRUE, am |-> row]
    ELSE [err |-> FALSE, am |-> [row EXCEPT !.Status = StatusRevoked]]

NoSurface == [err |-> FALSE, Status |-> "none", Challenges |-> <<>>]
\* The last operation, with the request the row was created from and the
\* challenge type a successful FinalizeAuthorization named.
NoOperation == [op |-> "none", err |-> FALSE, req |-> <<>>, attempted |-> ""]

InitAuthz ==
    /\ IdleOrder /\ IdleFin /\ IdleRL /\ IdlePA
    /\ IdleVD /\ IdleCH /\ IdleST /\ IdleRG /\ IdleIN
    /\ am = NoRow
    /\ apb = NoSurface
    /\ aclk = 0
    /\ ares = NoOperation

\* NewAuthz: the row is built by newAuthzReqToModel and inserted.
NewAuthz(req) ==
    /\ am = NoRow
    /\ am' = newAuthzReqToModel(req).am
    /\ ares' = [op |-> "NewAuthz", err |-> newAuthzReqToModel(req).err,
                req |-> req, attempted |-> ""]
    /\ UNCHANGED <<apb, aclk, notAZVars>>

FinalizeAuthorization(status, attempted) ==
    /\ am # NoRow
    /\ attempted \in Offered(am)
    /\ am' = finalizeAuthorization(am, status, attempted, aclk).am
    /\ ares' = [op |-> "FinalizeAuthorization",
                err |-> finalizeAuthorization(am, status, attempted, aclk).err,
                req |-> ares.req,
                attempted |->
                   IF finalizeAuthorization(am, status, attempted, aclk).err
                   THEN ares.attempted ELSE attempted]
    /\ UNCHANGED <<apb, aclk, notAZVars>>

DeactivateAuthorization ==
    /\ am # NoRow
    /\ am' = deactivateAuthorization(am).am
    /\ ares' = [ares EXCEPT !.op = "DeactivateAuthorization",
                             !.err = deactivateAuthorization(am).err]
    /\ UNCHANGED <<apb, aclk, notAZVars>>

RevokeAuthorization ==
    /\ am # NoRow
    /\ am' = revokeAuthorization(am).am
    /\ ares' = [ares EXCEPT !.op = "RevokeAuthorization",
                             !.err = revokeAuthorization(am).err]
    /\ UNCHANGED <<apb, aclk, notAZVars>>

\* GetAuthorization: the row is read and turned into its surface form.
GetAuthorization ==
    /\ am # NoRow
    /\ apb' = modelToAuthzPB(am)
    /\ ares' = [ares EXCEPT !.op = "GetAuthorization",
                             !.err = modelToAuthzPB(am).err]
    /\ UNCHANGED <<am, aclk, notAZVars>>

AuthzTick ==
    /\ aclk < MaxTime
    /\ aclk' = aclk + 1
    /\ UNCHANGED <<am, apb, ares, notAZVars>>

NextAuthz ==
    \/ \E req \in NewAuthzRequests : NewAuthz(req)
    \/ \E status \in {StatusValid, StatusInvalid}, attempted \in ChallTypeNames :
          FinalizeAuthorization(status, attempted)
    \/ DeactivateAuthorization
    \/ RevokeAuthorization
    \/ GetAuthorization
    \/ AuthzTick

SpecAuthz == InitAuthz /\ [][NextAuthz]_vars

\* The row exists before and after the step.
RowStays == am # NoRow /\ am' # NoRow

\* The step takes the row from status a to status b.
Moves(a, b) == am.Status = a /\ am'.Status = b

\* A row is created pending; a row that has left pending never returns to it;
\* the attempted challenge and its time are set once, in the step that makes
\* the row valid or invalid; and the status changes only along Allowed.
AuthzLife(Allowed) ==
    /\ (am = NoRow /\ am' # NoRow)
          => (am'.Status = StatusPending /\ am'.Attempted = Nil
              /\ am'.AttemptedAt = Nil)
    /\ am # NoRow => am' # NoRow
    /\ (RowStays /\ am'.Status # am.Status)
          => <<am.Status, am'.Status>> \in Allowed
    /\ (RowStays /\ am.Status # StatusPending) => am'.Status # StatusPending
    /\ (RowStays /\ am.Attempted # Nil)
          => (am'.Attempted = am.Attempted /\ am'.AttemptedAt = am.AttemptedAt)
    /\ (RowStays /\ (am'.Attempted # am.Attempted
                        \/ am'.AttemptedAt # am.AttemptedAt))
          => (/\ am.Status = StatusPending
              /\ am'.Status \in {StatusValid, StatusInvalid}
              /\ am'.Attempted # Nil /\ am'.AttemptedAt # Nil)
    /\ (RowStays /\ am.Status = StatusPending
           /\ am'.Status \in {StatusValid, StatusInvalid})
          => (am'.Attempted # Nil /\ am'.AttemptedAt = Ptr(aclk))

Listed == {apb.Challenges[i].Type : i \in 1 .. Len(apb.Challenges)}

\* C18: for a stored authorization read back through modelToAuthzPB, while no
\* challenge has been attempted the surface form lists exactly one pending
\* challenge for each offered challenge type; once a challenge has been
\* attempted it lists the attempted challenge alone, no longer pending.
C18_SurfaceChallenges ==
    ares.op = "GetAuthorization" =>
       /\ ~apb.err
       /\ Len(apb.Challenges) = Cardinality(Listed)
       /\ IF am.Attempted = Nil
          THEN /\ Listed = ares.req.ChallengeTypes
               /\ \A i \in 1 .. Len(apb.Challenges) :
                     apb.Challenges[i].Status = "pending"
          ELSE /\ Listed = {ares.attempted}
               /\ apb.Challenges[1].Status \in {"valid", "invalid"}
               /\ apb.Challenges[1].Status = "invalid" <=> am.ValidationError

\* C18 witness: of three offered challenges tls-alpn-01 was attempted and
\* failed, and the surface form lists that challenge alone, invalid.
C18_Witness ==
    /\ ares.op = "GetAuthorization"
    /\ Cardinality(ares.req.ChallengeTypes) = 3
    /\ ares.attempted = "tls-alpn-01"
    /\ Len(apb.Challenges) = 1
    /\ apb.Challenges[1].Type = "tls-alpn-01"
    /\ apb.Challenges[1].Status = "invalid"

\* C18 witness before any attempt: three pending challenges are listed.
C18_WitnessPending ==
    /\ ares.op = "GetAuthorization"
    /\ am.Attempted = Nil
    /\ Len(apb.Challenges) = 3
    /\ ares.req.ChallengeTypes = {"http-01", "dns-01", "tls-alpn-01"}

(***************************************************************************)
(* Order storage: the orders table with its orderFqdnSets and              *)
(* replacementOrders rows (sa/model.go).  A table is the sequence of its   *)
(* rows in insertion order.                                                *)
(***************************************************************************)
Serials == {"s1", "s2"}
orderLifetime == 1    \* one time unit stands for the configured lifetime

\* addOrderFQDNSet: one more row for the order.
addOrderFQDNSet(tbl, orderID, regID, expires) ==
    Append(tbl, [OrderID |-> orderID, RegistrationID |-> regID,
                 Expires |-> expires])

\* A deletion that reports no error when it deletes nothing.
deleteOrderFQDNSetNoCheck(tbl, orderID) ==
    LET kept == SelectSeq(tbl, LAMBDA r : r.OrderID # orderID)
    IN  [err |-> "", rowsDeleted |-> Len(tbl) - Len(kept), tbl |-> kept]

\* deleteOrderFQDNSet: DELETE ... WHERE orderID = ?, and an internal server
\* error when no row was deleted.
deleteOrderFQDNSet(tbl, orderID) ==
    LET kept == SelectSeq(tbl, LAMBDA r : r.OrderID # orderID)
        rowsDeleted == Len(tbl) - Len(kept)
    IN  IF rowsDeleted = 0
        THEN [err |-> "InternalServerError", rowsDeleted |-> 0, tbl |-> tbl]
        ELSE [err |-> "", rowsDeleted |-> rowsDeleted, tbl |-> kept]

\* SELECT id FROM replacementOrders WHERE serial = ? LIMIT 1
existingID(tbl, serial) ==
    LET ids == {i \in DOMAIN tbl : tbl[i].Serial = serial}
    IN  IF ids = {} THEN <<>>
        ELSE <<CHOOSE i \in ids : \A j \in ids : i <= j>>

\* An addReplacementOrder that always inserts.
addReplacementOrderInsertOnly(tbl, serial, orderID, orderExpires) ==
    Append(tbl, [Serial |-> serial, OrderID |-> orderID,
                 OrderExpires |-> orderExpires, Replaced |-> FALSE])

\* addReplacementOrder: the row of the serial gets the new order and expiry
\* when there is one (its replaced flag is left as it is), and is inserted
\* with replaced false otherwise.
addReplacementOrder(tbl, serial, orderID, orderExpires) ==
    IF Len(existingID(tbl, serial)) > 0
    THEN [tbl EXCEPT ![existingID(tbl, serial)[1]] =
             [@ EXCEPT !.OrderID = orderID, !.OrderExpires = orderExpires]]
    ELSE Append(tbl, [Serial |-> serial, OrderID |-> orderID,
                      OrderExpires |-> orderExpires, Replaced |-> FALSE])

\* setReplacementOrderFinalized: UPDATE ... SET replaced = true
\* WHERE orderID = ? LIMIT 1; no error when no row matches.
setReplacementOrderFinalized(tbl, orderID) ==
    LET ids == {i \in DOMAIN tbl : tbl[i].OrderID = orderID}
    IN  IF ids = {} THEN tbl
        ELSE [tbl EXCEPT ![CHOOSE i \in ids : \A j \in ids : i <= j].Replaced = TRUE]

\* Whether a new order may name the serial in replaces: not once the row is
\* replaced, and not while the order of the row has not expired.
replacementOrderExists(tbl, serial, t) ==
    \E i \in DOMAIN tbl :
       /\ tbl[i].Serial = serial
       /\ (tbl[i].Replaced \/ tbl[i].OrderExpires > t)

NoStorageOp == [op |-> "none", id |-> 0, err |-> "", rowsDeleted |-> 0]

InitStore ==
    /\ IdleOrder /\ IdleFin /\ IdleRL /\ IdlePA
    /\ IdleVD /\ IdleCH /\ IdleAZ /\ IdleRG /\ IdleIN
    /\ orders = <<>>
    /\ orderFqdnSets = <<>>
    /\ replacementOrders = <<>>
    /\ sres = NoStorageOp
    /\ sclk = 0

\* NewOrder with an optional replaces serial.  certOK says whether the named
\* certificate is owned by the account and not revoked.  The order, its
\* orderFqdnSets row and its replacementOrders row are written in one
\* transaction.
StoreNewOrder(regID, replaces, certOK) ==
    LET id == Len(orders) + 1
        expires == sclk + orderLifetime
    IN  /\ Len(orders) < MaxOrders
        /\ sclk' = sclk
        /\ IF replaces # "" /\ ~certOK
           THEN /\ sres' = [op |-> "NewOrder", id |-> 0, err |-> "Unauthorized",
                            rowsDeleted |-> 0]
                /\ UNCHANGED <<orders, orderFqdnSets, replacementOrders>>
           ELSE IF replaces # ""
                   /\ replacementOrderExists(replacementOrders, replaces, sclk)
           THEN /\ sres' = [op |-> "NewOrder", id |-> 0, err |-> "AlreadyReplaced",
                            rowsDeleted |-> 0]
                /\ UNCHANGED <<orders, orderFqdnSets, replacementOrders>>
           ELSE /\ orders' = Append(orders,
                                [RegistrationID |-> regID, Expires |-> expires,
                                 Replaces |-> replaces, CertificateSerial |-> ""])
                /\ orderFqdnSets' =
                      addOrderFQDNSet(orderFqdnSets, id, regID, expires)
                /\ replacementOrders' =
                      IF replaces = "" THEN replacementOrders
                      ELSE addReplacementOrder(replacementOrders, replaces, id,
                                               expires)
                /\ sres' = [op |-> "NewOrder", id |-> id, err |-> "",
                            rowsDeleted |-> 0]
        /\ UNCHANGED notSTVars

\* FinalizeOrder for an order id: the certificate serial is recorded, the
\* orderFqdnSets row deleted and the replacement marked, in one transaction
\* that is rolled back when deleteOrderFQDNSet returns an error.
StoreFinalizeOrder(id) ==
    LET del == deleteOrderFQDNSet(orderFqdnSets, id)
    IN  /\ sclk' = sclk
        /\ sres' = [op |-> "FinalizeOrder", id |-> id, err |-> del.err,
                    rowsDeleted |-> del.rowsDeleted]
        /\ IF del.err # "" \/ id \notin DOMAIN orders
           THEN UNCHANGED <<orders, orderFqdnSets, replacementOrders>>
           ELSE /\ orders' = [orders EXCEPT ![id].CertificateSerial = "issued"]
                /\ orderFqdnSets' = del.tbl
                /\ replacementOrders' =
                      setReplacementOrderFinalized(replacementOrders, id)
        /\ UNCHANGED notSTVars

StoreTick ==
    /\ sclk < MaxTime
    /\ sclk' = sclk + 1
    /\ UNCHANGED <<orders, orderFqdnSets, replacementOrders, sres>>
    /\ UNCHANGED notSTVars

NextStore ==
    \/ \E replaces \in Serials \cup {""}, certOK \in BOOLEAN :
          StoreNewOrder(1, replaces, certOK)
    \/ \E id \in 1 .. MaxOrders : StoreFinalizeOrder(id)
    \/ StoreTick

SpecStore == InitStore /\ [][NextStore]_vars

\* The orderFqdnSets rows of an order.
RowsOf(id) == {i \in DOMAIN orderFqdnSets : orderFqdnSets[i].OrderID = id}

Finalized(id) == orders[id].CertificateSerial # ""

\* Each unfinalized order has exactly one orderFqdnSets row, each finalized
\* order none, and no row is left without an order.
OneRowPerLiveOrder ==
    /\ \A id \in DOMAIN orders :
          Cardinality(RowsOf(id)) = IF Finalized(id) THEN 0 ELSE 1
    /\ \A i \in DOMAIN orderFqdnSets : orderFqdnSets[i].OrderID \in DOMAIN orders

\* A finalization that deleted no row has failed with an internal error.
NoRowIsAnError ==
    (sres.op = "FinalizeOrder" /\ sres.rowsDeleted = 0)
       => sres.err = "InternalServerError"

\* A finalization that ends in an error leaves the three tables as they were.
FailedFinalizeChangesNothing ==
    (sres'.op = "FinalizeOrder" /\ sres'.err # "")
       => UNCHANGED <<orders, orderFqdnSets, replacementOrders>>

\* C19: after any sequence of order creations and finalizations every order
\* that has not been finalized has exactly one orderFqdnSets row and every
\* finalized order has none; a finalization that finds no row to delete fails
\* with an internal error and changes nothing.
C19_OrderFqdnSetRows ==
    /\ [](OneRowPerLiveOrder /\ NoRowIsAnError)
    /\ [][FailedFinalizeChangesNothing]_vars

\* C19 witness: one order is finalized and has no row, another is not and has
\* its row, and a second finalization of the first has just failed with an
\* internal error.
C19_Witness ==
    /\ Len(orders) >= 2
    /\ Finalized(1) /\ RowsOf(1) = {}
    /\ ~Finalized(2) /\ Cardinality(RowsOf(2)) = 1
    /\ sres = [op |-> "FinalizeOrder", id |-> 1, err |-> "InternalServerError",
               rowsDeleted |-> 0]

\* The replacementOrders rows of a serial.
LinksOf(serial) ==
    {i \in DOMAIN replacementOrders : replacementOrders[i].Serial = serial}

\* The accepted orders that name the serial in replaces.
Replacing(tbl, serial) == {id \in DOMAIN tbl : tbl[id].Replaces = serial}

OneLinkPerSerial == \A s \in Serials : Cardinality(LinksOf(s)) <= 1

\* A link is replaced exactly when the order it points to is finalized.
ReplacedWhenFinalized ==
    \A i \in DOMAIN replacementOrders :
       /\ replacementOrders[i].OrderID \in DOMAIN orders
       /\ orders[replacementOrders[i].OrderID].Replaces = replacementOrders[i].Serial
       /\ replacementOrders[i].Replaced <=> Finalized(replacementOrders[i].OrderID)

\* Once a link is replaced it stays as it is and no further order naming its
\* serial is accepted.
ReplacedIsFinal ==
    \A i \in DOMAIN replacementOrders :
       replacementOrders[i].Replaced =>
          /\ i \in DOMAIN replacementOrders'
          /\ replacementOrders'[i] = replacementOrders[i]
          /\ Replacing(orders', replacementOrders[i].Serial)
                = Replacing(orders, replacementOrders[i].Serial)

\* A further order naming a serial is accepted only over a link that is not
\* replaced and whose order has expired.
AcceptedOverExpired ==
    \A s \in Serials :
       (Replacing(orders', s) # Replacing(orders, s) /\ LinksOf(s) # {})
          => \A i \in LinksOf(s) :
                /\ ~replacementOrders[i].Replaced
                /\ replacementOrders[i].OrderExpires <= sclk

\* No serial is named by more than one accepted order.
AcceptedOnce == \A s \in Serials : Cardinality(Replacing(orders, s)) <= 1

C20_WitnessTwice ==
    /\ Cardinality(Replacing(orders, "s1")) = 2
    /\ \E i \in DOMAIN replacementOrders :
          /\ replacementOrders[i].Serial = "s1"
          /\ replacementOrders[i].OrderID = 2
          /\ orders[1].Replaces = "s1"

(***************************************************************************)
(* The limit registry (package ratelimits): defaults by limit name,        *)
(* overrides by bucket key, getLimit and DumpOverrides.  The Name          *)
(* enumeration and validateIdForName are not part of the available source  *)
(* and follow the known limits of the design document, section 4.3.        *)
(***************************************************************************)
Unknown == 0
nameToString ==
    <<"NewRegistrationsPerIPAddress", "NewRegistrationsPerIPv6Range",
      "NewOrdersPerAccount", "CertificatesPerDomain", "CertificatesPerFQDNSet",
      "FailedAuthorizationsPerDomainPerAccount">>

\* Name.isValid
isValid(name) == name \in DOMAIN nameToString

\* Name.String
NameString(name) == IF isValid(name) THEN nameToString[name] ELSE "Unknown"

\* StringToName: the name of a string, Unknown (not ok) for any other string.
StringToName(k) ==
    IF \E n \in DOMAIN nameToString : nameToString[n] = k
    THEN CHOOSE n \in DOMAIN nameToString : nameToString[n] = k
    ELSE Unknown

NewOrdersPerAccount == StringToName("NewOrdersPerAccount")
CertificatesPerDomain == StringToName("CertificatesPerDomain")
CertificatesPerFQDNSet == StringToName("CertificatesPerFQDNSet")

\* Name.EnumString: the decimal form of the enumeration value.
enumStrings == <<"1", "2", "3", "4", "5", "6", "7">>
EnumString(name) == enumStrings[name]

\* strconv.Atoi on the name part of a bucket key: <<n>>, or <<>> on an error.
Atoi(str) ==
    IF \E n \in DOMAIN enumStrings : enumStrings[n] = str
    THEN <<CHOOSE n \in DOMAIN enumStrings : enumStrings[n] = str>>
    ELSE <<>>

\* A bucket key is the sequence of its colon-separated parts; the empty key
\* is the empty sequence.
joinWithColon(a, b) == <<a, b>>

\* parseOverrideNameEnumId
parseOverrideNameEnumId(key) ==
    IF Len(key) < 2 THEN [err |-> TRUE, name |-> Unknown, id |-> ""]
    ELSE IF Atoi(key[1]) = <<>> THEN [err |-> TRUE, name |-> Unknown, id |-> ""]
    ELSE IF ~isValid(Atoi(key[1])[1]) THEN [err |-> TRUE, name |-> Unknown, id |-> ""]
    ELSE IF key[2] = "" THEN [err |-> TRUE, name |-> Unknown, id |-> ""]
    ELSE [err |-> FALSE, name |-> Atoi(key[1])[1], id |-> key[2]]

\* validateIdForName: an account ID for NewOrdersPerAccount, a domain or an IP
\* address for CertificatesPerDomain, a comma-separated list of names for
\* CertificatesPerFQDNSet.
RegIDStrings == {"1", "2", "10"}
DomainStrings == {"a.c", "b.c"}
AddrStrings == {"10.0.0.1"}
validateIdForName(name, id) ==
    CASE name = NewOrdersPerAccount -> id \in RegIDStrings
      [] name = CertificatesPerDomain -> id \in DomainStrings \cup AddrStrings
      [] name = CertificatesPerFQDNSet -> id \in {"a.c,b.c"}
      [] OTHER -> FALSE

\* coveringIPPrefix(...).String() for an IPv4 address: its /32 prefix.
coveringIPPrefix(id) == IF id = "10.0.0.1" THEN "10.0.0.1/32" ELSE id

\* The hex form of core.HashIdentifiers over the listed names.
HashIdentifiers(id) == IF id = "a.c,b.c" THEN "h(a.c,b.c)" ELSE id

\* The id an override is registered under.
overrideId(name, id) ==
    CASE name = CertificatesPerDomain /\ id \in AddrStrings -> coveringIPPrefix(id)
      [] name = CertificatesPerFQDNSet -> HashIdentifiers(id)
      [] OTHER -> id

\* Limit built from a LimitConfig.
NewLimit(v, name, comment, isOverride) ==
    [Burst |-> v.Burst, Count |-> v.Count, Period |-> v.Period, Name |-> name,
     Comment |-> comment, emissionInterval |-> 0, burstOffset |-> 0,
     isOverride |-> isOverride]

\* parseDefaultLimits: every name recognized and every limit valid, or an
\* error; a valid limit is precomputed and stored under its EnumString.
parseDefaultLimits(newDefaultLimits) ==
    IF \E k \in DOMAIN newDefaultLimits : StringToName(k) = Unknown
    THEN [err |-> "error", parsed |-> <<>>]
    ELSE IF \E k \in DOMAIN newDefaultLimits :
               ~ValidateLimit(NewLimit(newDefaultLimits[k], StringToName(k), "", FALSE))
    THEN [err |-> "error", parsed |-> <<>>]
    ELSE [err |-> "",
          parsed |->
             [e \in {EnumString(StringToName(k)) : k \in DOMAIN newDefaultLimits} |->
                LET k == CHOOSE k \in DOMAIN newDefaultLimits :
                            EnumString(StringToName(k)) = e
                IN  precompute(NewLimit(newDefaultLimits[k], StringToName(k),
                                        "", FALSE))]]

\* s with key k set to v.
MapSet(m, k, v) == [x \in DOMAIN m \cup {k} |-> IF x = k THEN v ELSE m[x]]

\* The loop of parseOverrideLimits over the ids of one override: the id is
\* validated for the name; the limit is precomputed, which divides by its
\* Count, and only then validated; a valid limit is stored under name:id.
RECURSIVE parseOverrideIds(_, _, _, _, _)
parseOverrideIds(parsed, name, v, ids, i) ==
    IF i > Len(ids) THEN [err |-> "", parsed |-> parsed]
    ELSE IF ~validateIdForName(name, ids[i].Id)
    THEN [err |-> "error", parsed |-> <<>>]
    ELSE IF v.Count = 0 THEN [err |-> "panic", parsed |-> <<>>]
    ELSE IF ~ValidateLimit(NewLimit(v, name, ids[i].Comment, TRUE))
    THEN [err |-> "error", parsed |-> <<>>]
    ELSE parseOverrideIds(
            MapSet(parsed,
                   joinWithColon(EnumString(name), overrideId(name, ids[i].Id)),
                   precompute(NewLimit(v, name, ids[i].Comment, TRUE))),
            name, v, ids, i + 1)

\* parseOverrideLimits over the list of overrides, from position i on.
RECURSIVE parseOverrideLimitsFrom(_, _, _)
parseOverrideLimitsFrom(parsed, ovs, i) ==
    IF i > Len(ovs) THEN [err |-> "", parsed |-> parsed]
    ELSE IF StringToName(ovs[i].k) = Unknown
    THEN [err |-> "error", parsed |-> <<>>]
    ELSE LET r == parseOverrideIds(parsed, StringToName(ovs[i].k), ovs[i].v,
                                   ovs[i].Ids, 1)
         IN  IF r.err # "" THEN r
             ELSE parseOverrideLimitsFrom(r.parsed, ovs, i + 1)

parseOverrideLimits(newOverridesYAML) ==
    parseOverrideLimitsFrom(<<>>, newOverridesYAML, 1)

\* newLimitRegistry: the defaults are parsed first, then the overrides.
newLimitRegistry(defaults, overrides) ==
    LET d == parseDefaultLimits(defaults)
        o == parseOverrideLimits(overrides)
    IN  IF d.err # "" THEN [err |-> d.err, defaults |-> <<>>, overrides |-> <<>>]
        ELSE IF o.err # "" THEN [err |-> o.err, defaults |-> <<>>, overrides |-> <<>>]
        ELSE [err |-> "", defaults |-> d.parsed, overrides |-> o.parsed]

\* A getLimit that prefers the default of the name to an override.
getLimitDefaultFirst(l, name, bucketKey) ==
    IF ~isValid(name) THEN [err |-> "error", limit |-> <<>>]
    ELSE IF EnumString(name) \in DOMAIN l.defaults
    THEN [err |-> "", limit |-> l.defaults[EnumString(name)]]
    ELSE IF bucketKey # <<>> /\ bucketKey \in DOMAIN l.overrides
    THEN [err |-> "", limit |-> l.overrides[bucketKey]]
    ELSE [err |-> "errLimitDisabled", limit |-> <<>>]

\* limitRegistry.getLimit
getLimit(l, name, bucketKey) ==
    IF ~isValid(name) THEN [err |-> "error", limit |-> <<>>]
    ELSE IF bucketKey # <<>> /\ bucketKey \in DOMAIN l.overrides
    THEN [err |-> "", limit |-> l.overrides[bucketKey]]
    ELSE IF EnumString(name) \in DOMAIN l.defaults
    THEN [err |-> "", limit |-> l.defaults[EnumString(name)]]
    ELSE [err |-> "errLimitDisabled", limit |-> <<>>]

\* The bytes of the strings the registry compares.
Bytes(s) ==
    CASE s = "NewRegistrationsPerIPAddress" -> <<78, 101, 119, 82, 101, 103, 105, 115, 116, 114, 97, 116, 105, 111, 110, 115, 80, 101, 114, 73, 80, 65, 100, 100, 114, 101, 115, 115>>
      [] s = "NewRegistrationsPerIPv6Range" -> <<78, 101, 119, 82, 101, 103, 105, 115, 116, 114, 97, 116, 105, 111, 110, 115, 80, 101, 114, 73, 80, 118, 54, 82, 97, 110, 103, 101>>
      [] s = "NewOrdersPerAccount" -> <<78, 101, 119, 79, 114, 100, 101, 114, 115, 80, 101, 114, 65, 99, 99, 111, 117, 110, 116>>
      [] s = "CertificatesPerDomain" -> <<67, 101, 114, 116, 105, 102, 105, 99, 97, 116, 101, 115, 80, 101, 114, 68, 111, 109, 97, 105, 110>>
      [] s = "CertificatesPerFQDNSet" -> <<67, 101, 114, 116, 105, 102, 105, 99, 97, 116, 101, 115, 80, 101, 114, 70, 81, 68, 78, 83, 101, 116>>
      [] s = "FailedAuthorizationsPerDomainPerAccount" -> <<70, 97, 105, 108, 101, 100, 65, 117, 116, 104, 111, 114, 105, 122, 97, 116, 105, 111, 110, 115, 80, 101, 114, 68, 111, 109, 97, 105, 110, 80, 101, 114, 65, 99, 99, 111, 117, 110, 116>>
      [] s = "" -> <<>>
      [] s = "x" -> <<120>>
      [] s = "y" -> <<121>>
      [] s = "1" -> <<49>>
      [] s = "2" -> <<50>>
      [] s = "10" -> <<49, 48>>
      [] s = "a.c" -> <<97, 46, 99>>
      [] s = "b.c" -> <<98, 46, 99>>
      [] s = "10.0.0.1" -> <<49, 48, 46, 48, 46, 48, 46, 49>>
      [] s = "10.0.0.1/32" -> <<49, 48, 46, 48, 46, 48, 46, 49, 47, 51, 50>>
      [] s = "a.c,b.c" -> <<97, 46, 99, 44, 98, 46, 99>>
      [] s = "h(a.c,b.c)" -> <<104, 40, 97, 46, 99, 44, 98, 46, 99, 41>>
      [] s = "Unknown" -> <<85, 110, 107, 110, 111, 119, 110>>

\* The decimal digits of n >= 0.
RECURSIVE Digits(_)
Digits(n) == IF n < 10 THEN <<48 + n>> ELSE Append(Digits(n \div 10), 48 + (n % 10))

\* time.Duration.String for a duration below one microsecond: "0s" for zero,
\* otherwise the number of nanoseconds followed by "ns".
DurationString(d) == IF d = 0 THEN <<48, 115>> ELSE Digits(d) \o <<110, 115>>

\* a < b for Go strings: byte by byte, a proper prefix first.
RECURSIVE StringLess(_, _)
StringLess(a, b) ==
    IF b = <<>> THEN FALSE
    ELSE IF a = <<>> THEN TRUE
    ELSE IF Head(a) # Head(b) THEN Head(a) < Head(b)
    ELSE StringLess(Tail(a), Tail(b))

\* The row DumpOverrides builds for an override.
Row(bucketKey, l) ==
    [name |-> NameString(parseOverrideNameEnumId(bucketKey).name),
     id |-> parseOverrideNameEnumId(bucketKey).id,
     count |-> l.Count, burst |-> l.Burst,
     period |-> DurationString(l.Period), comment |-> l.Comment]

\* The comparison DumpOverrides hands to sort.Slice.
rowLess(a, b) ==
    IF a.name # b.name THEN StringLess(Bytes(a.name), Bytes(b.name))
    ELSE IF a.count # b.count THEN a.count > b.count
    ELSE IF a.burst # b.burst THEN a.burst > b.burst
    ELSE IF a.period # b.period THEN StringLess(a.period, b.period)
    ELSE IF a.comment # b.comment
    THEN StringLess(Bytes(a.comment), Bytes(b.comment))
    ELSE StringLess(Bytes(a.id), Bytes(b.id))

\* sort.Slice over rows no two of which compare equal.
RECURSIVE SortRows(_)
SortRows(rows) ==
    IF rows = {} THEN <<>>
    ELSE LET first == CHOOSE r \in rows : \A q \in rows \ {r} : rowLess(r, q)
         IN  <<first>> \o SortRows(rows \ {first})

\* DumpOverrides: the rows written after the header, or an error when a
\* bucket key does not parse.
DumpOverrides(overrides) ==
    IF \E k \in DOMAIN overrides : parseOverrideNameEnumId(k).err
    THEN [err |-> "error", rows |-> <<>>]
    ELSE [err |-> "",
          rows |-> SortRows({Row(k, overrides[k]) : k \in DOMAIN overrides})]

\* LimitConfig values of the configuration files, valid and not.
Config(burst, count, period) == [Burst |-> burst, Count |-> count, Period |-> period]
DefaultConfigs ==
    {<<>>,
     [k \in {"NewOrdersPerAccount"} |-> Config(1, 1, 2)],
     [k \in {"NewOrdersPerAccount", "CertificatesPerDomain"} |->
        IF k = "NewOrdersPerAccount" THEN Config(2, 1, 10) ELSE Config(2, 2, 1)],
     [k \in {"NewOrdersPerAccount"} |-> Config(1, 0, 2)],
     [k \in {"NewOrdersPerAccount"} |-> Config(0, 1, 2)],
     [k \in {"CertificatesPerDomain"} |-> Config(1, 1, 0)],
     [k \in {"CertificatesPerDomain"} |-> Config(1, -1, 2)],
     [k \in {"Bogus"} |-> Config(1, 1, 2)]}

IdEntry(id, comment) == [Id |-> id, Comment |-> comment]

\* One element of the overrides list: a single-key map from a limit name to
\* its LimitConfig and ids.
Override(k, v, ids) == [k |-> k, v |-> v, Ids |-> ids]
OverrideItems ==
    {Override("NewOrdersPerAccount", Config(1, 1, 2), <<IdEntry("1", "")>>),
     Override("NewOrdersPerAccount", Config(1, 1, 10), <<IdEntry("2", "x")>>),
     Override("NewOrdersPerAccount", Config(1, 1, 2),
              <<IdEntry("1", ""), IdEntry("10", "y")>>),
     Override("NewOrdersPerAccount", Config(2, 1, 2), <<IdEntry("2", "x")>>),
     Override("NewOrdersPerAccount", Config(1, 2, 2), <<IdEntry("10", "y")>>),
     Override("NewOrdersPerAccount", Config(0, 1, 2), <<>>),
     Override("NewOrdersPerAccount", Config(0, 1, 2), <<IdEntry("1", "")>>),
     Override("NewOrdersPerAccount", Config(1, 0, 2), <<IdEntry("1", "")>>),
     Override("NewOrdersPerAccount", Config(1, 1, 0), <<IdEntry("1", "")>>),
     Override("NewOrdersPerAccount", Config(1, 1, 2), <<IdEntry("a.c", "")>>),
     Override("CertificatesPerDomain", Config(1, 1, 2), <<IdEntry("a.c", "")>>),
     Override("CertificatesPerDomain", Config(1, 1, 10),
              <<IdEntry("10.0.0.1", "x")>>),
     Override("CertificatesPerFQDNSet", Config(1, 1, 2),
              <<IdEntry("a.c,b.c", "")>>),
     Override("Bogus", Config(1, 1, 2), <<IdEntry("1", "")>>)}

OverrideLists == UNION {[1 .. n -> OverrideItems] : n \in 0 .. MaxOverrides}

\* The names and bucket keys getLimit is asked for.
AskedNames == {Unknown, NewOrdersPerAccount, CertificatesPerDomain,
               CertificatesPerFQDNSet, 7}
AskedKeys ==
    {<<>>, <<"3", "1">>, <<"3", "2">>, <<"3", "10">>, <<"4", "a.c">>,
     <<"4", "10.0.0.1">>, <<"4", "10.0.0.1/32">>, <<"5", "h(a.c,b.c)">>}

NoRegistry == [err |-> "none", defaults |-> <<>>, overrides |-> <<>>,
               from |-> <<>>]
NoRegistryOp == [op |-> "none", err |-> "", name |-> Unknown, key |-> <<>>,
                 limit |-> <<>>, rows |-> <<>>]

InitRegistry ==
    /\ IdleOrder /\ IdleFin /\ IdleRL /\ IdlePA
    /\ IdleVD /\ IdleCH /\ IdleAZ /\ IdleST /\ IdleIN
    /\ reg = NoRegistry
    /\ rres = NoRegistryOp

\* newLimitRegistry from the defaults and overrides of the two files.  The
\* registry remembers the configuration it was built from.
NewLimitRegistry(defaults, overrides) ==
    /\ reg = NoRegistry
    /\ LET l == newLimitRegistry(defaults, overrides)
       IN  /\ reg' = [err |-> l.err, defaults |-> l.defaults,
                      overrides |-> l.overrides,
                      from |-> [defaults |-> defaults, overrides |-> overrides]]
           /\ rres' = [NoRegistryOp EXCEPT !.op = "newLimitRegistry", !.err = l.err]
    /\ UNCHANGED notRGVars

\* The registry does not change once built, and the calls on it do not
\* change it: one call is made on each registry.
GetLimit(name, bucketKey) ==
    /\ reg.err = "" /\ rres.op = "newLimitRegistry"
    /\ rres' = [NoRegistryOp EXCEPT !.op = "getLimit",
                   !.err = getLimit(reg, name, bucketKey).err,
                   !.limit = getLimit(reg, name, bucketKey).limit,
                   !.name = name, !.key = bucketKey]
    /\ UNCHANGED <<reg, notRGVars>>

DumpOverridesCall ==
    /\ reg.err = "" /\ rres.op = "newLimitRegistry"
    /\ rres' = [NoRegistryOp EXCEPT !.op = "DumpOverrides",
                   !.err = DumpOverrides(reg.overrides).err,
                   !.rows = DumpOverrides(reg.overrides).rows]
    /\ UNCHANGED <<reg, notRGVars>>

NextRegistry ==
    \/ /\ reg = NoRegistry
       /\ \E d \in DefaultConfigs, o \in OverrideLists : NewLimitRegistry(d, o)
    \/ /\ reg.err = ""
       /\ \E n \in AskedNames, k \in AskedKeys : GetLimit(n, k)
    \/ DumpOverridesCall

SpecRegistry == InitRegistry /\ [][NextRegistry]_vars

\* The configured overrides that register under the bucket key: the list
\* position, the id entry and the limit name of each.
RegisteredAs(key) ==
    {<<i, j>> \in (DOMAIN reg.from.overrides) \X (1 .. 2) :
        /\ j <= Len(reg.from.overrides[i].Ids)
        /\ LET name == StringToName(reg.from.overrides[i].k)
           IN  key = joinWithColon(EnumString(name),
                        overrideId(name, reg.from.overrides[i].Ids[j].Id))}

\* The limit is the one the configuration gives in override i for its id j.
IsOverride(l, i, j) ==
    LET ov == reg.from.overrides[i]
    IN  /\ l.Burst = ov.v.Burst /\ l.Count = ov.v.Count /\ l.Period = ov.v.Period
        /\ l.Name = StringToName(ov.k)
        /\ l.Comment = ov.Ids[j].Comment
        /\ l.isOverride

\* The limit is the configured default of the name.
IsDefault(l, name) ==
    LET v == reg.from.defaults[NameString(name)]
    IN  /\ l.Burst = v.Burst /\ l.Count = v.Count /\ l.Period = v.Period
        /\ l.Name = name
        /\ ~l.isOverride

\* The answer getLimit gives when no override applies: the configured
\* default of the name, or the limit-disabled error.
DefaultOrDisabled ==
    IF NameString(rres.name) \in DOMAIN reg.from.defaults
    THEN rres.err = "" /\ IsDefault(rres.limit, rres.name)
    ELSE rres.err = "errLimitDisabled"

\* An invalid name is an error; a key with a configured override gets that
\* override whatever the name; every other call gets the default of the name
\* or the limit-disabled error.
OverrideThenDefault ==
    rres.op = "getLimit" =>
       IF ~isValid(rres.name) THEN rres.err = "error"
       ELSE IF RegisteredAs(rres.key) # {}
       THEN /\ rres.err = ""
            /\ \E p \in RegisteredAs(rres.key) : IsOverride(rres.limit, p[1], p[2])
       ELSE DefaultOrDisabled

\* A key built for another limit name leaves the answer for this name as it
\* is without any override.
OtherNameUntouched ==
    (rres.op = "getLimit" /\ isValid(rres.name) /\ rres.key # <<>>
        /\ rres.key[1] # EnumString(rres.name))
       => DefaultOrDisabled

\* C21 as stated: getLimit returns the override registered under exactly
\* bucketKey when one exists, otherwise the default of the name, otherwise the
\* limit-disabled error; an invalid name is an error; and an override
\* registered for one key never changes the limit returned for a different
\* key or for a different limit name.
C21_GetLimit == OverrideThenDefault /\ OtherNameUntouched

\* C21 amended: getLimit returns the override registered under exactly
\* bucketKey when one exists, whatever valid name it is asked with, otherwise
\* the default of the name, otherwise the limit-disabled error; an invalid
\* name is an error; an override never changes the limit returned for a
\* different key.
C21_GetLimitByKey == OverrideThenDefault

\* C21 witness: NewOrdersPerAccount has a default and an override for
\* account 1 that differs from it; asked with the key of account 1 getLimit
\* returns the override, not the default.
C21_Witness ==
    /\ rres.op = "getLimit" /\ rres.err = ""
    /\ rres.name = NewOrdersPerAccount /\ rres.key = <<"3", "1">>
    /\ "3" \in DOMAIN reg.defaults
    /\ rres.limit.isOverride
    /\ rres.limit.Period # reg.defaults["3"].Period

\* C21 witness for another key: with the same registry the key of account 2,
\* which has no override, gets the default.
C21_WitnessOtherKey ==
    /\ rres.op = "getLimit" /\ rres.err = ""
    /\ rres.name = NewOrdersPerAccount /\ rres.key = <<"3", "2">>
    /\ <<"3", "1">> \in DOMAIN reg.overrides
    /\ rres.limit = reg.defaults["3"]

\* A LimitConfig with a count, burst or period that is not positive.
NotPositive(v) == v.Count <= 0 \/ v.Burst <= 0 \/ v.Period <= 0

\* The configuration the registry was built from holds such a limit: as a
\* default, or as an override with at least one id.
ContainsNotPositive ==
    \/ \E k \in DOMAIN reg.from.defaults : NotPositive(reg.from.defaults[k])
    \/ \E i \in DOMAIN reg.from.overrides :
          /\ NotPositive(reg.from.overrides[i].v)
          /\ reg.from.overrides[i].Ids # <<>>

\* The limits of the registry.
RegistryLimits ==
    {reg.defaults[k] : k \in DOMAIN reg.defaults}
       \cup {reg.overrides[k] : k \in DOMAIN reg.overrides}

\* C22: building a registry from defaults or overrides that contain a limit
\* whose count, burst or period is <= 0 returns a validation error, without
\* crashing and without registering the limit, so that every limit of a
\* constructed registry has count > 0, burst > 0 and period > 0.
C22_NoInvalidLimitAccepted ==
    reg # NoRegistry =>
       /\ ContainsNotPositive => reg.err = "error"
       /\ reg.err # "panic"
       /\ \A l \in RegistryLimits : l.Count > 0 /\ l.Burst > 0 /\ l.Period > 0

\* The limit an exported row was written from.
LimitOfRow(r) == reg.overrides[joinWithColon(EnumString(StringToName(r.name)), r.id)]

\* Row a comes before row b in the order: name ascending, count descending,
\* burst descending, period ascending by duration, comment ascending, id
\* ascending.
CanonicallyBefore(a, b) ==
    IF a.name # b.name THEN StringLess(Bytes(a.name), Bytes(b.name))
    ELSE IF a.count # b.count THEN a.count > b.count
    ELSE IF a.burst # b.burst THEN a.burst > b.burst
    ELSE IF LimitOfRow(a).Period # LimitOfRow(b).Period
    THEN LimitOfRow(a).Period < LimitOfRow(b).Period
    ELSE IF a.comment # b.comment
    THEN StringLess(Bytes(a.comment), Bytes(b.comment))
    ELSE StringLess(Bytes(a.id), Bytes(b.id))

\* C23: DumpOverrides writes one row for each override, ordered by limit name
\* ascending, then count descending, then burst descending, then period
\* ascending (shorter durations first), then comment ascending, then id
\* ascending.
C23_DumpOrder ==
    (rres.op = "DumpOverrides" /\ rres.err = "") =>
       /\ Len(rres.rows) = Cardinality(DOMAIN reg.overrides)
       /\ \A i, j \in 1 .. Len(rres.rows) :
             i < j => CanonicallyBefore(rres.rows[i], rres.rows[j])

\* C27: every limit that passes validation has a precomputed
\* emissionInterval > 0 and burstOffset > 0.
C27_PrecomputedPositive ==
    \A l \in RegistryLimits :
       ValidateLimit(l) => (l.emissionInterval > 0 /\ l.burstOffset > 0)

(***************************************************************************)
(* Issued names (sa/model.go): reverseFQDN and EncodeIssuedName.  A name   *)
(* is the sequence of its characters.                                      *)
(***************************************************************************)
NameChars == {"a", "0", "1", "."}
DigitChars == <<"0", "1", "2", "3", "4", "5", "6", "7", "8", "9">>
IsDigit(c) == \E i \in DOMAIN DigitChars : DigitChars[i] = c
DigitValue(c) == (CHOOSE i \in DOMAIN DigitChars : DigitChars[i] = c) - 1

\* strings.Split(s, "."): the fields between the dots, at least one.
RECURSIVE Split(_)
Split(s) ==
    IF \A i \in DOMAIN s : s[i] # "." THEN <<s>>
    ELSE LET d == CHOOSE i \in DOMAIN s : s[i] = "." /\ \A j \in 1 .. i - 1 : s[j] # "."
         IN  <<SubSeq(s, 1, d - 1)>> \o Split(SubSeq(s, d + 1, Len(s)))

\* strings.Join(labels, ".")
RECURSIVE Join(_)
Join(labels) ==
    IF labels = <<>> THEN <<>>
    ELSE IF Len(labels) = 1 THEN labels[1]
    ELSE labels[1] \o <<".">> \o Join(Tail(labels))

\* The swap loop of reverseFQDN from positions i and j inwards (1-based).
RECURSIVE swapLabels(_, _, _)
swapLabels(labels, i, j) ==
    IF i < j
    THEN swapLabels([labels EXCEPT ![i] = labels[j], ![j] = labels[i]], i + 1, j - 1)
    ELSE labels

\* A reversal that only exchanges the first and the last label.
reverseFQDNEnds(fqdn) ==
    LET labels == Split(fqdn)
    IN  Join([labels EXCEPT ![1] = labels[Len(labels)], ![Len(labels)] = labels[1]])

\* reverseFQDN
reverseFQDN(fqdn) == Join(swapLabels(Split(fqdn), 1, Len(Split(fqdn))))

\* The value of a decimal field.
RECURSIVE FieldValue(_)
FieldValue(f) ==
    IF f = <<>> THEN 0
    ELSE 10 * FieldValue(SubSeq(f, 1, Len(f) - 1)) + DigitValue(f[Len(f)])

\* A field of a dotted-quad address: one to three digits, no leading zero,
\* at most 255.
IsIPv4Field(f) ==
    /\ Len(f) \in 1 .. 3
    /\ \A i \in DOMAIN f : IsDigit(f[i])
    /\ (Len(f) > 1 => f[1] # "0")
    /\ FieldValue(f) <= 255

\* netip.ParseAddr on a name without colons: the four bytes of an IPv4
\* address, or <<>> on an error.
ParseAddr(name) ==
    LET fields == Split(name)
    IN  IF Len(fields) = 4 /\ \A i \in 1 .. 4 : IsIPv4Field(fields[i])
        THEN [i \in 1 .. 4 |-> FieldValue(fields[i])]
        ELSE <<>>

\* The decimal form of a byte.
FormatByte(n) ==
    IF n < 10 THEN <<DigitChars[n + 1]>>
    ELSE IF n < 100 THEN <<DigitChars[(n \div 10) + 1], DigitChars[(n % 10) + 1]>>
    ELSE <<DigitChars[(n \div 100) + 1], DigitChars[((n \div 10) % 10) + 1],
           DigitChars[(n % 10) + 1]>>

\* netip.Addr.String for an IPv4 address.
AddrString(ip) == Join([i \in 1 .. 4 |-> FormatByte(ip[i])])

\* EncodeIssuedName
EncodeIssuedName(name) ==
    IF ParseAddr(name) # <<>> THEN AddrString(ParseAddr(name))
    ELSE reverseFQDN(name)

IssuedNames == UNION {[1 .. n -> NameChars] : n \in 0 .. MaxNameChars}

NoEncoding == [step |-> 0, enc |-> <<>>, encenc |-> <<>>, rev |-> <<>>,
               revrev |-> <<>>]

InitIssuedName ==
    /\ IdleOrder /\ IdleFin /\ IdleRL /\ IdlePA
    /\ IdleVD /\ IdleCH /\ IdleAZ /\ IdleST /\ IdleRG
    /\ iname \in IssuedNames
    /\ ienc = NoEncoding

\* EncodeIssuedName on the name.
EncodeCall ==
    /\ ienc.step = 0
    /\ ienc' = [ienc EXCEPT !.step = 1, !.enc = EncodeIssuedName(iname)]
    /\ UNCHANGED <<iname, notINVars>>

\* EncodeIssuedName on the encoding.
EncodeAgainCall ==
    /\ ienc.step = 1
    /\ ienc' = [ienc EXCEPT !.step = 2, !.encenc = EncodeIssuedName(ienc.enc)]
    /\ UNCHANGED <<iname, notINVars>>

\* reverseFQDN on the name.
ReverseCall ==
    /\ ienc.step = 2
    /\ ienc' = [ienc EXCEPT !.step = 3, !.rev = reverseFQDN(iname)]
    /\ UNCHANGED <<iname, notINVars>>

\* reverseFQDN on the reversed name.
ReverseAgainCall ==
    /\ ienc.step = 3
    /\ ienc' = [ienc EXCEPT !.step = 4, !.revrev = reverseFQDN(ienc.rev)]
    /\ UNCHANGED <<iname, notINVars>>

NextIssuedName ==
    \/ EncodeCall
    \/ EncodeAgainCall
    \/ ReverseCall
    \/ ReverseAgainCall

SpecIssuedName == InitIssuedName /\ [][NextIssuedName]_vars

\* The labels of a name in the opposite order.
Reversed(labels) == [i \in 1 .. Len(labels) |-> labels[Len(labels) - i + 1]]

\* C24: reverseFQDN is its own inverse on dot-separated names; EncodeIssuedName
\* applied to a name that is not an IP address reverses its labels, applied
\* twice it returns the original name, and applied to an IP address it returns
\* the address's canonical text unchanged.
C24_EncodeIssuedName ==
    /\ ienc.step >= 3 => Split(ienc.rev) = Reversed(Split(iname))
    /\ ienc.step >= 4 => ienc.revrev = iname
    /\ (ienc.step >= 1 /\ ParseAddr(iname) = <<>>)
          => Split(ienc.enc) = Reversed(Split(iname))
    /\ (ienc.step >= 2 /\ ParseAddr(iname) = <<>>) => ienc.encenc = iname
    /\ (ienc.step >= 1 /\ ParseAddr(iname) # <<>>) => ienc.enc = iname
    /\ (ienc.step >= 2 /\ ParseAddr(iname) # <<>>) => ienc.encenc = iname

\* C24 witness: a.1.0a is encoded as 0a.1.a, and that back as a.1.0a.
C24_Witness ==
    /\ iname = <<"a", ".", "1", ".", "0", "a">>
    /\ ienc.step = 4
    /\ ienc.enc = <<"0", "a", ".", "1", ".", "a">>
    /\ ienc.encenc = iname
    /\ ienc.rev = ienc.enc /\ ienc.revrev = iname

\* C24 witness for an address: 1.0.0.1 is encoded as itself, while reverseFQDN
\* does reverse 0.1.1.1.
C24_WitnessAddress ==
    /\ iname = <<"0", ".", "1", ".", "1", ".", "1">>
    /\ ienc.step = 4
    /\ ienc.enc = iname
    /\ ienc.rev = <<"1", ".", "1", ".", "1", ".", "0">>

(***************************************************************************)
(* SpecConvert: the conversions between the forms of an authorization      *)
(* (sa/model.go): a request is stored by newAuthzReqToModel, the row is    *)
(* finalized and read back through modelToAuthzPB, and surface forms are   *)
(* put to authzPBToModel.                                                   *)
(***************************************************************************)
\* statusToUint: a status it does not hold maps to the zero value.
statusToUint(st) ==
    IF st = "valid" THEN StatusValid
    ELSE IF st = "invalid" THEN StatusInvalid
    ELSE IF st = "deactivated" THEN StatusDeactivated
    ELSE IF st = "revoked" THEN StatusRevoked
    ELSE StatusPending

\* hasMultipleNonPendingChallenges counting valid challenges only.
hasMultipleValidChallenges(challenges) ==
    Cardinality({i \in DOMAIN challenges : challenges[i].Status = "valid"}) > 1

\* hasMultipleNonPendingChallenges
hasMultipleNonPendingChallenges(challenges) ==
    Cardinality({i \in DOMAIN challenges :
                    challenges[i].Status \in {"valid", "invalid"}}) > 1

\* The loop of authzPBToModel over the challenges from position k on: the
\* bitmap, the attempted fields of a challenge that is valid or invalid, and
\* the token, whose decoding error ends the conversion.
RECURSIVE challengesToModel(_, _, _)
challengesToModel(row, challenges, k) ==
    IF k > Len(challenges) THEN [err |-> FALSE, am |-> row]
    ELSE LET chall == challenges[k]
             bit == [row EXCEPT !.Challenges = SetBit(@, challTypeToUint(chall.Type))]
             att == IF chall.Status \in {"valid", "invalid"}
                    THEN [bit EXCEPT !.Attempted = Ptr(challTypeToUint(chall.Type)),
                                     !.AttemptedAt = chall.Validated,
                                     !.ValidationError = chall.Error]
                    ELSE bit
         IN  IF DecodeString(chall.Token).err THEN [err |-> TRUE, am |-> NoRow]
             ELSE challengesToModel(
                     [att EXCEPT !.Token = DecodeString(chall.Token).bytes],
                     challenges, k + 1)

\* authzPBToModel
authzPBToModel(pb) ==
    IF pb.Id # "" /\ Atoi(pb.Id) = <<>> THEN [err |-> TRUE, am |-> NoRow]
    ELSE IF hasMultipleNonPendingChallenges(pb.Challenges)
    THEN [err |-> TRUE, am |-> NoRow]
    ELSE challengesToModel(
            [exists |-> TRUE,
             IdentifierType |-> identifierTypeToUint(pb.Identifier.Type),
             IdentifierValue |-> pb.Identifier.Value,
             RegistrationID |-> pb.RegistrationID,
             Status |-> statusToUint(pb.Status),
             Expires |-> pb.Expires,
             Challenges |-> 0,
             Token |-> <<>>,
             Attempted |-> Nil,
             AttemptedAt |-> Nil,
             ValidationError |-> FALSE],
            pb.Challenges, 1)

\* Tokens: the canonical text of one byte and of two bytes, a text whose
\* spare bits are not zero, a six-character text, the empty text, a single
\* character and a character outside the alphabet.
TokenPool ==
    {<<"Q", "Q">>, <<"A", "B", "g">>, <<"Q", "R">>, <<"_", "_", "_", "_", "Q", "Q">>,
     <<>>, <<"Q">>, <<"Q", "=">>}

\* The requests put to newAuthzReqToModel, with identifier and challenge types
\* the maps do not hold.
ConvertRequests ==
    [IdentifierType : {"dns", "ip", "email"},
     IdentifierValue : {<<"a", "c">>, <<"10", "11">>},
     RegistrationID : {1, 2}, Expires : Times,
     ChallengeTypes : SUBSET (ChallTypeNames \cup {"bogus-01"}),
     Token : TokenPool]

\* The challenges of a surface authorization.
SurfaceChallenges ==
    {[Type |-> t, Status |-> st, Token |-> tok, Validated |-> Nil,
      Error |-> (st = "invalid")] :
        t \in {"http-01", "dns-01"}, st \in {"pending", "valid", "invalid"},
        tok \in {<<"Q", "Q">>, <<"Q">>}}

\* corepb.Authorization as handed to authzPBToModel.
SurfaceAuthzs ==
    [err : {FALSE}, Id : {"", "3", "x"}, Status : {"pending"},
     Identifier : {DNS(<<"a", "c">>)}, RegistrationID : {1}, Expires : {0},
     Challenges : UNION {[1 .. n -> SurfaceChallenges] :
                            n \in 0 .. MaxSurfaceChallenges}]

\* authzPBToModel(pb): the surface form and whether it was rejected.
ConvertSurface(pb) ==
    /\ am = NoRow /\ ares = NoOperation
    /\ apb' = pb
    /\ ares' = [op |-> "authzPBToModel", err |-> authzPBToModel(pb).err,
                req |-> <<>>, attempted |-> ""]
    /\ UNCHANGED <<am, aclk, notAZVars>>

NextConvert ==
    \/ /\ ares = NoOperation
       /\ \E req \in ConvertRequests : NewAuthz(req)
    \/ \E status \in {StatusValid, StatusInvalid}, attempted \in ChallTypeNames :
          FinalizeAuthorization(status, attempted)
    \/ GetAuthorization
    \/ /\ ares = NoOperation
       /\ \E pb \in SurfaceAuthzs : ConvertSurface(pb)

SpecConvert == InitAuthz /\ [][NextConvert]_vars

\* The positions of the surface form's challenges that are not pending.
NonPending == {i \in DOMAIN apb.Challenges : apb.Challenges[i].Status # "pending"}

\* C25: in the surface form of a stored authorization all challenges carry the
\* same token and at most one challenge is not pending; that one is the
\* attempted challenge, invalid exactly when a validation error is stored and
\* valid otherwise.  authzPBToModel rejects a surface authorization with two
\* or more challenges that are not pending.
C25_OneAttemptedChallenge ==
    /\ ares.op = "GetAuthorization" =>
          /\ ~apb.err
          /\ \A i, j \in DOMAIN apb.Challenges :
                apb.Challenges[i].Token = apb.Challenges[j].Token
          /\ Cardinality(NonPending) <= 1
          /\ \A i \in NonPending :
                /\ am.Attempted # Nil
                /\ apb.Challenges[i].Type = ares.attempted
                /\ apb.Challenges[i].Status =
                      IF am.ValidationError THEN "invalid" ELSE "valid"
          /\ am.Attempted # Nil => NonPending # {}
    /\ (ares.op = "authzPBToModel" /\ Cardinality(NonPending) >= 2) => ares.err

\* C25 witness: a surface authorization whose two challenges are valid and
\* invalid, with a well-formed ID and tokens, was rejected.
C25_Witness ==
    /\ ares.op = "authzPBToModel" /\ ares.err
    /\ apb.Id = "3"
    /\ Len(apb.Challenges) = 2
    /\ apb.Challenges[1].Status = "valid" /\ apb.Challenges[2].Status = "invalid"
    /\ \A i \in 1 .. 2 : apb.Challenges[i].Token = <<"Q", "Q">>

\* C25 witness for the stored authorization: of three offered challenges
\* dns-01 was attempted and failed; it is listed alone, invalid.
C25_WitnessStored ==
    /\ ares.op = "GetAuthorization"
    /\ Cardinality(ares.req.ChallengeTypes) = 3
    /\ ares.attempted = "dns-01"
    /\ am.ValidationError
    /\ NonPending = {1}
    /\ apb.Challenges[1].Status = "invalid"

\* The request names only identifier and challenge types the maps hold.
Recognized(req) ==
    /\ req.IdentifierType \in {"dns", "ip"}
    /\ req.ChallengeTypes \subseteq ChallTypeNames

\* The new row was stored and has been read back.
ReadBackNew ==
    /\ ares.op = "GetAuthorization"
    /\ am.Attempted = Nil

\* C29: a request converted by newAuthzReqToModel and back by modelToAuthzPB
\* yields the same identifier type and value, registration, expiry and token,
\* status pending and exactly the requested challenge types, all pending; a
\* request naming an unrecognized identifier or challenge type does not come
\* back with a recognized type it did not name.
C29_RequestRoundTrip ==
    ReadBackNew =>
       /\ ~apb.err
       /\ apb.Identifier.Value = ares.req.IdentifierValue
       /\ apb.RegistrationID = ares.req.RegistrationID
       /\ apb.Expires = ares.req.Expires
       /\ apb.Status = "pending"
       /\ \A i \in DOMAIN apb.Challenges :
             /\ apb.Challenges[i].Status = "pending"
             /\ apb.Challenges[i].Token = ares.req.Token
       /\ Len(apb.Challenges) = Cardinality(Listed)
       /\ Recognized(ares.req) =>
             /\ apb.Identifier.Type = ares.req.IdentifierType
             /\ Listed = ares.req.ChallengeTypes
       /\ apb.Identifier.Type \in {"dns", "ip"}
             => apb.Identifier.Type = ares.req.IdentifierType
       /\ Listed \cap ChallTypeNames \subseteq ares.req.ChallengeTypes

(***************************************************************************)
(* Claims about statusForOrder                                             *)
(***************************************************************************)

\* The rows carry statuses the uintToStatus map knows.
KnownStatuses(infos) == \A i \in 1 .. Len(infos) : infos[i].Status \in KnownStatusCodes

\* The list of rules of the order state machine, first applicable rule first.
FirstApplicableRule(o, infos, t) ==
    IF o.Error THEN "invalid"
    ELSE IF o.Expires < t THEN "invalid"
    ELSE IF \E i \in 1 .. Len(infos) :
               \/ infos[i].Status \in {StatusInvalid, StatusDeactivated, StatusRevoked}
               \/ infos[i].Expires < t
         THEN "invalid"
    ELSE IF \E i \in 1 .. Len(infos) : infos[i].Status = StatusPending THEN "pending"
    ELSE IF o.CertificateSerial # "" THEN "valid"
    ELSE IF o.BeganProcessing THEN "processing"
    ELSE "ready"

\* C2: for every order, every list of authorization rows as long as the order's
\* list of authorization IDs and as its list of identifiers, and every time,
\* statusForOrder returns, without error, the outcome of the first applicable
\* rule: error -> invalid; expired -> invalid; an authorization invalid,
\* deactivated, revoked or expired -> invalid; one pending -> pending; serial
\* set -> valid; beganProcessing -> processing; otherwise ready.
C2_FirstRuleDecides ==
    (/\ result # NoResult
     /\ Len(authzs) = order.V2Authorizations
     /\ Len(authzs) = order.Identifiers
     /\ KnownStatuses(authzs))
        => result = Status(FirstApplicableRule(order, authzs, now))

\* C2 witness: a status was computed for an order of two authorizations, one of
\* them pending and one deactivated, and the third rule decided it.
C2_Witness ==
    /\ result = Status("invalid")
    /\ ~order.Error /\ ~Before(order.Expires, now)
    /\ order.V2Authorizations = 2 /\ order.Identifiers = 2 /\ Len(authzs) = 2
    /\ authzs[1].Status = StatusPending /\ authzs[2].Status = StatusDeactivated
    /\ ~Before(authzs[1].Expires, now) /\ ~Before(authzs[2].Expires, now)

\* The position of a status in the order pending -> ready -> processing -> valid.
Chain == {"pending", "ready", "processing", "valid"}
Rank(s) == CASE s = "pending" -> 0 [] s = "ready" -> 1 [] s = "processing" -> 2
             [] s = "valid" -> 3 [] OTHER -> -1

CurrentStatus == statusForOrder(order, authzs, now).status

\* C3: along the monotonic updates of an order (an authorization becomes valid,
\* beganProcessing becomes true, the serial is set) the status statusForOrder
\* computes never moves backwards in pending -> ready -> processing -> valid:
\* no step takes it from one status of the chain to an earlier one, and a step
\* that leaves the clock alone keeps a stored order's status in the chain.
C3_NeverRetrogrades ==
    [][/\ (CurrentStatus \in Chain /\ CurrentStatus' \in Chain)
            => Rank(CurrentStatus') >= Rank(CurrentStatus)
       /\ (now' = now /\ CurrentStatus \in Chain) => CurrentStatus' \in Chain]_vars

\* C3 witness: an order with two authorizations has gone through its life to
\* the end of the chain: beganProcessing set, serial recorded, status valid.
C3_Witness ==
    /\ Len(authzs) = 2
    /\ order.CertificateSerial = "serial" /\ order.BeganProcessing
    /\ CurrentStatus = "valid"
    /\ result = NoResult

\* C28: once the status statusForOrder computes for an order is valid, it is
\* valid after every later step: valid is terminal, and the passage of time
\* alone never changes it.
C28_ValidIsTerminal ==
    [][CurrentStatus = "valid" => CurrentStatus' = "valid"]_vars

\* C28 amended: once the status computed for an order is valid, then with its
\* authorizations' rows unchanged it stays valid at every later time up to and
\* including the order's expiry time; at any time after the expiry
\* statusForOrder returns invalid for the order.
C28_ValidUntilExpiry ==
    [][CurrentStatus = "valid" =>
          CurrentStatus' = IF Before(order.Expires, now') THEN "invalid"
                           ELSE "valid"]_vars

\* C28 witness: an order whose status is valid at the very time it expires,
\* with time still to pass.
C28_Witness ==
    /\ CurrentStatus = "valid"
    /\ now = order.Expires /\ now < MaxTime
    /\ \E i \in 1 .. Len(authzs) : authzs[i].Expires > order.Expires

\* C28 witness after the expiry: all authorizations valid and unexpired, the
\* serial recorded, no error, and the status is invalid.
C28_WitnessExpired ==
    /\ CurrentStatus = "invalid"
    /\ ~order.Error /\ order.CertificateSerial # ""
    /\ Before(order.Expires, now)
    /\ \A i \in 1 .. Len(authzs) :
          authzs[i].Status = StatusValid /\ ~Before(authzs[i].Expires, now)

\* C4 as stated: whenever the number of rows differs from the number of the
\* order's identifiers, statusForOrder returns an internal error.
C4_MismatchAlwaysError ==
    (result # NoResult /\ Len(authzs) # order.Identifiers) => result.err

\* C4, amended: an order with an error or past its expiry is invalid whatever
\* the counts are.  Otherwise statusForOrder returns an internal error whenever
\* the number of rows differs from the number of authorization IDs; when it
\* equals that number but differs from the number of identifiers, it returns an
\* internal error exactly when no row is pending, invalid, deactivated, revoked
\* or expired, and the status of the usual rule (invalid, pending) otherwise.
C4_MismatchAmended ==
    result # NoResult =>
        /\ (order.Error \/ Before(order.Expires, now)) => result = Status("invalid")
        /\ (~order.Error /\ ~Before(order.Expires, now)
                /\ Len(authzs) # order.V2Authorizations) => result.err
        /\ (~order.Error /\ ~Before(order.Expires, now) /\ KnownStatuses(authzs)
                /\ Len(authzs) = order.V2Authorizations
                /\ Len(authzs) # order.Identifiers) =>
              IF FirstApplicableRule(order, authzs, now) \in {"invalid", "pending"}
              THEN result = Status(FirstApplicableRule(order, authzs, now))
              ELSE result.err

\* C4 witness: a status was asked for an unexpired order without error whose
\* two rows are valid while it has one identifier, and the call failed.
C4_Witness ==
    /\ result = InternalServerError
    /\ ~order.Error /\ ~Before(order.Expires, now)
    /\ Len(authzs) = 2 /\ order.V2Authorizations = 2 /\ order.Identifiers = 1
    /\ \A i \in 1 .. 2 :
          authzs[i].Status = StatusValid /\ ~Before(authzs[i].Expires, now)

====
